---- MODULE Spec2Model ----
(***************************************************************************)
(* Portfolio accounting of the AI hedge fund backtesters.                  *)
(*                                                                         *)
(*   Spec            run_aligned_backtest       (run_backtest_aligned.py)  *)
(*   StandaloneSpec  StandaloneBacktester       (standalone_backtester.py) *)
(*   LedgerSpec      the Position Ledger of the core Backtester, whose     *)
(*                   source is not part of the tree (only its callers and  *)
(*                   the portfolio declaration are); taken from spec.md    *)
(*   SummarySpec     the Weighted Decision Summary    (run_backtest.py)   *)
(*   ArchitectSpec   the architect runner   (run_backtest_architect.py)   *)
(*   RunStandaloneSpec  one run per backtester (run_standalone_backtest)   *)
(*   SimulationSpec  run_simulation and its child  (backend/api.py)       *)
(*   StandaloneWeekSpec  a run with a day between first and last day      *)
(*   PricesSpec      get_prices                         (tools/api.py)    *)
(*   SignalsSpec     call_llm (utils/llm.py) and the Signal Aggregator    *)
(*                   of spec.md 4.3                                        *)
(*   StatementsSpec  the trade execution of run_aligned_backtest,         *)
(*                   statement by statement                                *)
(*   PaginationSpec  the pagination loop of get_insider_trades and of      *)
(*                   get_company_news                   (tools/api.py)    *)
(*   DatabaseSpec    the pool of DatabaseManager  (database/db_manager.py) *)
(*   InstrumentsSpec two tasks creating an instrument                      *)
(*                   (database/agent_db_integration.py, db_manager.py)     *)
(*   WorkflowSpec    create_workflow and the run of its graph    (main.py)  *)
(*                                                                         *)
(* Money is counted in half currency units and confidences in hundredths,  *)
(* so that the Python float expressions become integer expressions; the    *)
(* returns of the metrics are in hundredths of a percent.  Dates are day   *)
(* numbers; day 0 is a Monday, so d % 7 is datetime.weekday().             *)
(***************************************************************************)
EXTENDS Integers, Sequences, FiniteSets, TLC

VARIABLES
    \* run configuration (arguments of the run)
    start_date, end_date, initial_capital,
    \* run_aligned_backtest
    pc, current_date, value, result, trading_days, day_idx, ticker_idx,
    current_prices, portfolio, portfolio_decisions_log, portfolio_value,
    \* StandaloneBacktester
    sb_pc, price_data, capital, positions, trades, portfolio_values,
    sb_date, day_counter, returned,
    \* Position Ledger
    ledger, instruction, trade, diagnostic, total_value, applied,
    \* run_non_interactive_backtest of run_backtest.py
    rb_pc, rb_idx, agent_decisions, weighted_summary,
    \* run_non_interactive_backtest of run_backtest_architect.py
    ar_pc, ar_idx, ar_analysts, ar_result,
    \* run_simulation of backend/api.py and its child process
    sim_pc, req_tickers, child_pc, attempt, agent_idx, stdout, waited,
    response, tracking,
    \* get_prices of tools/api.py
    cached_prices, price_list,
    \* call_llm of utils/llm.py for the analysts of one instrument, and the
    \* Signal Aggregator
    cl_idx, cl_attempt, default_factory, analyst_signals, unavailable,
    sized,
    \* the statements of the trade execution of run_aligned_backtest
    w_pc, w_cash, w_long, w_order, w_trades,
    \* the pagination loop of get_insider_trades and get_company_news
    pg_pc, current_end_date, all_trades, requests,
    \* DatabaseManager of database/db_manager.py
    pool, initialized, in_use, acquired, released, outcome,
    \* the tasks of _get_or_create_instrument_id and the instruments table
    task_pc, task_ticker, task_id, instruments, instrument_cache,
    \* the workflow of create_workflow and its execution
    wf_pc, wf_selected, wf_active, wf_ran

cfgvars == <<start_date, end_date, initial_capital>>
avars == <<pc, current_date, value, result, trading_days, day_idx, ticker_idx,
           current_prices, portfolio, portfolio_decisions_log, portfolio_value>>
sbvars == <<sb_pc, price_data, capital, positions, trades, portfolio_values,
            sb_date, day_counter, returned>>
lvars == <<ledger, instruction, trade, diagnostic, total_value, applied>>
rbvars == <<rb_pc, rb_idx, agent_decisions, weighted_summary>>
arvars == <<ar_pc, ar_idx, ar_analysts, ar_result>>
simvars == <<sim_pc, req_tickers, child_pc, attempt, agent_idx, stdout, waited,
             response, tracking>>
gpvars == <<cached_prices, price_list>>
clvars == <<cl_idx, cl_attempt, default_factory, analyst_signals, unavailable,
            sized>>
wvars == <<w_pc, w_cash, w_long, w_order, w_trades>>
pgvars == <<pg_pc, current_end_date, all_trades, requests>>
dbvars == <<pool, initialized, in_use, acquired, released, outcome>>
insvars == <<task_pc, task_ticker, task_id, instruments, instrument_cache>>
wfvars == <<wf_pc, wf_selected, wf_active, wf_ran>>
vars == <<cfgvars, avars, sbvars, lvars, rbvars, arvars, simvars, gpvars,
          clvars, wvars,
          pgvars,
          dbvars,
          insvars,
          wfvars>>

----------------------------------------------------------------------------
(* Bounds of the model *)

MaxDate == 5
MaxApplied == 3

(* Inputs *)

ticker_list == <<"AAPL", "MSFT">>
Tickers == {ticker_list[i] : i \in 1..Len(ticker_list)}
selected_analysts == <<"warren_buffett", "cathie_wood", "risk_management">>
Analysts == {selected_analysts[i] : i \in 1..Len(selected_analysts)}
ConfidenceValues == {30, 90}
PriceValues == {200, 240}
CapitalValues == {500, 6000}
\* the standalone backtester is also run without capital
StandaloneCapitalValues == {0} \cup CapitalValues
\* day 3 is a Thursday, day 5 a Saturday
Dates == 3..MaxDate
ValueMoves == {-50, 49}

NoPrice == 0

----------------------------------------------------------------------------
(* Helpers *)

Min(a, b) == IF a <= b THEN a ELSE b
Max(a, b) == IF a >= b THEN a ELSE b

RECURSIVE SumOver(_, _)
SumOver(f, S) ==
    IF S = {} THEN 0
    ELSE LET x == CHOOSE y \in S : TRUE IN f[x] + SumOver(f, S \ {x})

\* datetime.weekday(): Monday is 0, Saturday 5, Sunday 6
weekday(d) == d % 7

\* int(a / b) for a >= 0, b > 0
IntDiv(a, b) == a \div b

\* round(a / b) to the nearest unit, halves away from the floor
RoundDiv(a, b) == (2 * a + b) \div (2 * b)

----------------------------------------------------------------------------
(* run_aligned_backtest *)

\* lines 58-74
InitialPortfolio(cash) ==
    [cash |-> cash,
     positions |-> [t \in Tickers |->
        [long |-> 0, short |-> 0, long_cost_basis |-> 0, short_cost_basis |-> 0]],
     trades |-> <<>>,
     margin_used |-> 0]

\* line 126: trading_days[::max(1, len(trading_days)//5)]
SampleStep(days) == Max(1, Len(days) \div 5)
trading_sample_first(days) ==
    LET st == SampleStep(days)
        n == (Len(days) + st - 1) \div st
    IN [i \in 1..n |-> days[1]]

trading_sample(days) ==
    LET st == SampleStep(days)
        n == (Len(days) + st - 1) \div st
    IN [i \in 1..n |-> days[(i - 1) * st + 1]]

\* line 150
Signal(confidence) == IF confidence > 50 THEN "bullish" ELSE "bearish"

\* lines 163-170
bullish_count(conf) == Cardinality({a \in Analysts : Signal(conf[a]) = "bullish"})
bearish_count(conf) == Cardinality({a \in Analysts : Signal(conf[a]) = "bearish"})
bullish_confidence(conf) ==
    SumOver(conf, {a \in Analysts : Signal(conf[a]) = "bullish"})
bearish_confidence(conf) ==
    SumOver(conf, {a \in Analysts : Signal(conf[a]) = "bearish"})

\* lines 175-176, 179-180: confidence = min(0.95, score / len(selected_analysts));
\* quantity = max(1, int((initial_capital * 0.1 * confidence) / price))
SizedQuantity(score, price, cap) ==
    LET n == Len(selected_analysts)
    IN Max(1, IntDiv(cap * Min(95 * n, score), 1000 * n * price))

DecideHoldSized(conf, price, cap) ==
    LET bc == bullish_count(conf)
        rc == bearish_count(conf)
        bs == bullish_confidence(conf)
        rs == bearish_confidence(conf)
    IN IF bc > rc /\ 10 * bs > 12 * rs
         THEN [action |-> "buy", quantity |-> SizedQuantity(bs, price, cap)]
       ELSE IF rc > bc /\ 10 * rs > 12 * bs
         THEN [action |-> "sell", quantity |-> SizedQuantity(rs, price, cap)]
       ELSE [action |-> "hold", quantity |-> SizedQuantity(bs, price, cap)]

\* lines 173-184
Decide(conf, price, cap) ==
    LET bc == bullish_count(conf)
        rc == bearish_count(conf)
        bs == bullish_confidence(conf)
        rs == bearish_confidence(conf)
    IN IF bc > rc /\ 10 * bs > 12 * rs
         THEN [action |-> "buy", quantity |-> SizedQuantity(bs, price, cap)]
       ELSE IF rc > bc /\ 10 * rs > 12 * bs
         THEN [action |-> "sell", quantity |-> SizedQuantity(rs, price, cap)]
       ELSE [action |-> "hold", quantity |-> 0]

CanAffordAlways(cost, cash) == TRUE

\* line 224
CanAfford(cost, cash) == cost <= cash

CashAfterBuyAdds(cash, cost) == cash + cost

\* line 225
CashAfterBuy(cash, cost) == cash - cost

sell_quantity_unclamped(quantity, long) == quantity

\* line 237
sell_quantity(quantity, long) == Min(quantity, long)

\* line 240
CashAfterSell(cash, proceeds) == cash + proceeds

ExecuteTradeSharesFirst(p, day, ticker, action, quantity, price) ==
    IF action = "buy" THEN
        LET cost == quantity * price IN
        IF CanAfford(cost, p.cash) THEN
            [p EXCEPT !.cash = CashAfterBuy(p.cash, cost),
                      !.positions[ticker].long = @ + quantity,
                      !.trades = Append(@, [date |-> day, ticker |-> ticker,
                          action |-> "buy", quantity |-> quantity,
                          price |-> price, cost |-> cost])]
        ELSE [p EXCEPT !.positions[ticker].long = @ + quantity]
    ELSE IF action = "sell" THEN
        LET sq == sell_quantity(quantity, p.positions[ticker].long) IN
        IF sq > 0 THEN
            LET proceeds == sq * price IN
            [p EXCEPT !.cash = CashAfterSell(p.cash, proceeds),
                      !.positions[ticker].long = @ - sq,
                      !.trades = Append(@, [date |-> day, ticker |-> ticker,
                          action |-> "sell", quantity |-> sq,
                          price |-> price, proceeds |-> proceeds])]
        ELSE p
    ELSE p

ExecuteTradeShortsExcess(p, day, ticker, action, quantity, price) ==
    IF action = "buy" THEN
        LET cost == quantity * price IN
        IF CanAfford(cost, p.cash) THEN
            [p EXCEPT !.cash = CashAfterBuy(p.cash, cost),
                      !.positions[ticker].long = @ + quantity,
                      !.trades = Append(@, [date |-> day, ticker |-> ticker,
                          action |-> "buy", quantity |-> quantity,
                          price |-> price, cost |-> cost])]
        ELSE p
    ELSE IF action = "sell" THEN
        LET sq == sell_quantity(quantity, p.positions[ticker].long) IN
        IF sq > 0 THEN
            LET proceeds == sq * price IN
            [p EXCEPT !.cash = CashAfterSell(p.cash, proceeds),
                      !.positions[ticker].long = @ - sq,
                      !.positions[ticker].short = @ + (quantity - sq),
                      !.trades = Append(@, [date |-> day, ticker |-> ticker,
                          action |-> "sell", quantity |-> sq,
                          price |-> price, proceeds |-> proceeds])]
        ELSE [p EXCEPT !.positions[ticker].short = @ + quantity]
    ELSE p

ExecuteTradeRecordsEmptySell(p, day, ticker, action, quantity, price) ==
    IF action = "buy" THEN
        LET cost == quantity * price IN
        IF CanAfford(cost, p.cash) THEN
            [p EXCEPT !.cash = CashAfterBuy(p.cash, cost),
                      !.positions[ticker].long = @ + quantity,
                      !.trades = Append(@, [date |-> day, ticker |-> ticker,
                          action |-> "buy", quantity |-> quantity,
                          price |-> price, cost |-> cost])]
        ELSE p
    ELSE IF action = "sell" THEN
        LET sq == sell_quantity(quantity, p.positions[ticker].long)
            proceeds == sq * price
        IN [p EXCEPT !.cash = CashAfterSell(p.cash, proceeds),
                     !.positions[ticker].long = @ - sq,
                     !.trades = Append(@, [date |-> day, ticker |-> ticker,
                         action |-> "sell", quantity |-> sq,
                         price |-> price, proceeds |-> proceeds])]
    ELSE p

\* lines 221-249
ExecuteTrade(p, day, ticker, action, quantity, price) ==
    IF action = "buy" THEN
        LET cost == quantity * price IN
        IF CanAfford(cost, p.cash) THEN
            [p EXCEPT !.cash = CashAfterBuy(p.cash, cost),
                      !.positions[ticker].long = @ + quantity,
                      !.trades = Append(@, [date |-> day, ticker |-> ticker,
                          action |-> "buy", quantity |-> quantity,
                          price |-> price, cost |-> cost])]
        ELSE p
    ELSE IF action = "sell" THEN
        LET sq == sell_quantity(quantity, p.positions[ticker].long) IN
        IF sq > 0 THEN
            LET proceeds == sq * price IN
            [p EXCEPT !.cash = CashAfterSell(p.cash, proceeds),
                      !.positions[ticker].long = @ - sq,
                      !.trades = Append(@, [date |-> day, ticker |-> ticker,
                          action |-> "sell", quantity |-> sq,
                          price |-> price, proceeds |-> proceeds])]
        ELSE p
    ELSE p

\* lines 252-254
PortfolioValue(p, prices) ==
    p.cash + SumOver([t \in Tickers |-> p.positions[t].long * prices[t]], Tickers)

AlignedIdle ==
    /\ pc = "idle" /\ current_date = 0 /\ value = 0
    /\ result = [portfolio_values |-> <<>>, performance_metrics |-> <<>>]
    /\ trading_days = <<>> /\ day_idx = 0 /\ ticker_idx = 0
    /\ current_prices = [t \in Tickers |-> NoPrice]
    /\ portfolio = InitialPortfolio(0)
    /\ portfolio_decisions_log = <<>>
    /\ portfolio_value = 0

\* lines 45-86
InitAligned ==
    /\ pc = "calendar"
    /\ current_date = start_date
    /\ value = initial_capital
    /\ result = [portfolio_values |-> <<>>, performance_metrics |-> <<>>]
    /\ trading_days = <<>> /\ day_idx = 0 /\ ticker_idx = 0
    /\ current_prices = [t \in Tickers |-> NoPrice]
    /\ portfolio = InitialPortfolio(initial_capital)
    /\ portfolio_decisions_log = <<>>
    /\ portfolio_value = 0

\* lines 88-98: one iteration of the calendar loop
CalendarStep ==
    /\ pc = "calendar"
    /\ current_date <= end_date
    /\ IF weekday(current_date) < 5
         THEN \E k \in ValueMoves :
                LET v == value + (value * k) \div 5000 IN
                /\ value' = v
                /\ trading_days' = Append(trading_days, current_date)
                /\ result' = [result EXCEPT !.portfolio_values =
                                Append(@, [date |-> current_date, value |-> v])]
         ELSE UNCHANGED <<value, trading_days, result>>
    /\ current_date' = current_date + 1
    /\ UNCHANGED <<pc, day_idx, ticker_idx, current_prices, portfolio,
                   portfolio_decisions_log, portfolio_value>>

\* lines 100-126: the calendar loop is over; line 101 indexes the last
\* portfolio value and raises IndexError when there was no business day
CalendarDone ==
    /\ pc = "calendar"
    /\ current_date > end_date
    /\ IF Len(result.portfolio_values) = 0
         THEN pc' = "failed" /\ UNCHANGED day_idx
         ELSE pc' = "day" /\ day_idx' = 1
    /\ UNCHANGED <<current_date, value, result, trading_days, ticker_idx,
                   current_prices, portfolio, portfolio_decisions_log,
                   portfolio_value>>

\* lines 128-139: start of a sampled trading day, prices of the day
StartDay ==
    /\ pc = "day"
    /\ day_idx <= Len(trading_sample(trading_days))
    /\ \E prices \in [Tickers -> PriceValues] : current_prices' = prices
    /\ ticker_idx' = 1
    /\ pc' = "ticker"
    /\ UNCHANGED <<current_date, value, result, trading_days, day_idx,
                   portfolio, portfolio_decisions_log, portfolio_value>>

\* lines 142-249: signals, decision and execution for one ticker
ProcessTicker ==
    /\ pc = "ticker"
    /\ ticker_idx <= Len(ticker_list)
    /\ \E conf \in [Analysts -> ConfidenceValues] :
         LET ticker == ticker_list[ticker_idx]
             day == trading_sample(trading_days)[day_idx]
             price == current_prices[ticker]
             d == Decide(conf, price, initial_capital)
         IN /\ portfolio_decisions_log' = Append(portfolio_decisions_log,
                  [date |-> day, ticker |-> ticker, action |-> d.action,
                   quantity |-> d.quantity, price |-> price])
            /\ portfolio' = ExecuteTrade(portfolio, day, ticker, d.action,
                                         d.quantity, price)
    /\ ticker_idx' = ticker_idx + 1
    /\ UNCHANGED <<pc, current_date, value, result, trading_days, day_idx,
                   current_prices, portfolio_value>>

\* lines 251-257: value of the portfolio at the end of the day
EndOfDay ==
    /\ pc = "ticker"
    /\ ticker_idx > Len(ticker_list)
    /\ portfolio_value' = PortfolioValue(portfolio, current_prices)
    /\ day_idx' = day_idx + 1
    /\ pc' = "day"
    /\ UNCHANGED <<current_date, value, result, trading_days, ticker_idx,
                   current_prices, portfolio, portfolio_decisions_log>>

\* lines 259-278 and 322
FinishPerDayCounted ==
    /\ pc = "day"
    /\ day_idx > Len(trading_sample(trading_days))
    /\ LET days == end_date - start_date
           gain == portfolio_value - initial_capital
       IN result' = [result EXCEPT !.performance_metrics =
            [total_return |-> RoundDiv(gain * 10000, initial_capital),
             annualized_return |-> RoundDiv(gain * 10000 * 365,
                 initial_capital * (days + 1))]]
    /\ pc' = "done"
    /\ UNCHANGED <<current_date, value, trading_days, day_idx, ticker_idx,
                   current_prices, portfolio, portfolio_decisions_log,
                   portfolio_value>>

Finish ==
    /\ pc = "day"
    /\ day_idx > Len(trading_sample(trading_days))
    /\ LET days == end_date - start_date
           gain == portfolio_value - initial_capital
       IN result' = [result EXCEPT !.performance_metrics =
            [total_return |-> RoundDiv(gain * 10000, initial_capital),
             annualized_return |-> RoundDiv(gain * 10000 * 365,
                 initial_capital * (IF days = 0 THEN 1 ELSE days))]]
    /\ pc' = "done"
    /\ UNCHANGED <<current_date, value, trading_days, day_idx, ticker_idx,
                   current_prices, portfolio, portfolio_decisions_log,
                   portfolio_value>>

NextAligned ==
    /\ \/ CalendarStep
       \/ CalendarDone
       \/ StartDay
       \/ ProcessTicker
       \/ EndOfDay
       \/ Finish
    /\ UNCHANGED <<cfgvars, sbvars, lvars, rbvars, arvars, simvars, gpvars, clvars, wvars,
                   pgvars,
                   dbvars,
                   insvars,
                   wfvars>>

----------------------------------------------------------------------------
(* StandaloneBacktester *)

\* line 146 (and 220): 100 + ord(ticker[0]) % 100
base_price(ticker) == IF ticker = "AAPL" THEN 2 * 165 ELSE 2 * 177

\* line 220 and 223: 100 + (ord(ticker[0]) % 100) + (day_counter * 0.5)
generated_price(ticker, dc) == base_price(ticker) + dc

day_price_default(pd, ticker, date, dc) ==
    IF pd[ticker][date] # NoPrice THEN pd[ticker][date] ELSE 200

\* lines 211-223
day_price(pd, ticker, date, dc) ==
    IF pd[ticker][date] # NoPrice THEN pd[ticker][date]
    ELSE generated_price(ticker, dc)

\* a dict assignment d[key] = v on a dict kept in insertion order
DictSet(d, key, v) ==
    IF \E i \in 1..Len(d) : d[i].date = key
      THEN [i \in 1..Len(d) |-> IF d[i].date = key
                                  THEN [date |-> key, value |-> v] ELSE d[i]]
      ELSE Append(d, [date |-> key, value |-> v])

\* lines 84-89: the price of the most recent trade of the ticker, else 100
RECURSIVE last_trade_price(_, _, _)
last_trade_price(tr, ticker, i) ==
    IF i = 0 THEN 200
    ELSE IF tr[i].ticker = ticker THEN tr[i].price
    ELSE last_trade_price(tr, ticker, i - 1)

calculate_portfolio_value_cash_only(cap, pos, tr, pd, date) == cap

\* lines 60-97
calculate_portfolio_value(cap, pos, tr, pd, date) ==
    cap + SumOver([t \in Tickers |->
            IF pos[t] > 0
              THEN pos[t] * (IF pd[t][date] # NoPrice THEN pd[t][date]
                             ELSE last_trade_price(tr, t, Len(tr)))
              ELSE 0], Tickers)

\* line 230
IsFirstDay(dc) == dc = 0

\* line 247
IsLastDay(date, last) == date >= last - 1

\* lines 227-261: the strategy for one ticker on one day
TradeTicker(s, ticker, date, dc, last, price) ==
    IF IsFirstDay(dc) THEN
        LET buy_amount == (s.capital * 9) \div 10
            quantity == IntDiv(buy_amount, price)
            cost == quantity * price
        IN IF quantity > 0 /\ cost <= s.capital
             THEN [capital |-> s.capital - cost,
                   positions |-> [s.positions EXCEPT ![ticker] = @ + quantity],
                   trades |-> Append(s.trades, [date |-> date, ticker |-> ticker,
                       action |-> "BUY", quantity |-> quantity, price |-> price,
                       value |-> cost])]
             ELSE s
    ELSE IF IsLastDay(date, last) THEN
        LET quantity == s.positions[ticker]
            sale_value == quantity * price
        IN IF quantity > 0
             THEN [capital |-> s.capital + sale_value,
                   positions |-> [s.positions EXCEPT ![ticker] = 0],
                   trades |-> Append(s.trades, [date |-> date, ticker |-> ticker,
                       action |-> "SELL", quantity |-> quantity, price |-> price,
                       value |-> sale_value])]
             ELSE s
    ELSE s

\* lines 226-261: the tickers in list order
RECURSIVE TradeTickers(_, _, _, _, _, _)
TradeTickers(s, i, pd, date, dc, last) ==
    IF i > Len(ticker_list) THEN s
    ELSE TradeTickers(
            TradeTicker(s, ticker_list[i], date, dc, last,
                        day_price(pd, ticker_list[i], date, dc)),
            i + 1, pd, date, dc, last)

\* random.uniform(a, b), rounded: any of the values of the range
Uniform(lo, hi) == {lo, hi}

StandaloneIdle ==
    /\ sb_pc = "idle"
    /\ price_data = [t \in Tickers |-> [d \in Dates |-> NoPrice]]
    /\ capital = 0
    /\ positions = [t \in Tickers |-> 0]
    /\ trades = <<>>
    /\ portfolio_values = <<>>
    /\ sb_date = 0 /\ day_counter = 0
    /\ returned = <<>>

\* lines 41-58: the constructor; the price data holds a closing price for
\* the business days the data source knows
InitStandalone ==
    /\ sb_pc = "idle"
    /\ price_data \in [Tickers -> [Dates -> PriceValues \cup {NoPrice}]]
    /\ \A t \in Tickers, d \in Dates :
          weekday(d) >= 5 => price_data[t][d] = NoPrice
    /\ capital = initial_capital
    /\ positions = [t \in Tickers |-> 0]
    /\ trades = <<>>
    /\ portfolio_values = <<>>
    /\ sb_date = 0 /\ day_counter = 0
    /\ returned = <<>>

\* lines 41-58: the constructor for a run that begins on a Wednesday, so
\* that the week has a day between the first and the last trading day
WeekDates == 2..MaxDate

InitStandaloneWeek ==
    /\ sb_pc = "idle"
    /\ price_data \in [Tickers -> [WeekDates -> PriceValues \cup {NoPrice}]]
    /\ \A t \in Tickers, d \in WeekDates :
          weekday(d) >= 5 => price_data[t][d] = NoPrice
    /\ capital = initial_capital
    /\ positions = [t \in Tickers |-> 0]
    /\ trades = <<>>
    /\ portfolio_values = <<>>
    /\ sb_date = 0 /\ day_counter = 0
    /\ returned = <<>>

\* lines 184-199: the state is reset and the initial value stored
StartRun ==
    /\ portfolio_values' = <<[date |-> start_date, value |-> initial_capital]>>
    /\ trades' = <<>>
    /\ capital' = initial_capital
    /\ positions' = [t \in Tickers |-> 0]
    /\ sb_date' = start_date
    /\ day_counter' = 0
    /\ sb_pc' = "loop"
    /\ UNCHANGED <<price_data, returned>>

BeginRunFailsEarly ==
    /\ sb_pc = "idle"
    /\ IF initial_capital = 0
         THEN /\ sb_pc' = "failed"
              /\ UNCHANGED <<price_data, capital, positions, trades,
                             portfolio_values, sb_date, day_counter, returned>>
         ELSE StartRun

\* lines 182-199: the first call of run_backtest on the backtester
BeginRun ==
    /\ sb_pc = "idle"
    /\ StartRun

\* lines 182-199: a further call of run_backtest on the same backtester,
\* after the call before returned or raised
Rerun ==
    /\ sb_pc \in {"done", "failed"}
    /\ StartRun

\* lines 205-208: a weekend day of the loop
SkipWeekend ==
    /\ sb_pc = "loop"
    /\ sb_date <= end_date
    /\ weekday(sb_date) >= 5
    /\ sb_date' = sb_date + 1
    /\ UNCHANGED <<sb_pc, price_data, capital, positions, trades,
                   portfolio_values, day_counter, returned>>

\* lines 210-269: a business day of the loop
TradingDay ==
    /\ sb_pc = "loop"
    /\ sb_date <= end_date
    /\ weekday(sb_date) < 5
    /\ LET s == TradeTickers([capital |-> capital, positions |-> positions,
                              trades |-> trades],
                             1, price_data, sb_date, day_counter, end_date)
       IN /\ capital' = s.capital
          /\ positions' = s.positions
          /\ trades' = s.trades
          /\ portfolio_values' = DictSet(portfolio_values, sb_date,
                calculate_portfolio_value(s.capital, s.positions, s.trades,
                                          price_data, sb_date))
    /\ sb_date' = sb_date + 1
    /\ day_counter' = day_counter + 1
    /\ UNCHANGED <<sb_pc, price_data, returned>>

\* lines 271-282: the metrics; returned holds what the latest call of
\* run_backtest handed to its caller.  Line 274 divides by initial_capital
\* and raises ZeroDivisionError when it is 0
EndRun ==
    /\ sb_pc = "loop"
    /\ sb_date > end_date
    /\ IF initial_capital = 0
         THEN /\ sb_pc' = "failed"
              /\ UNCHANGED returned
         ELSE /\ LET final_value ==
                         portfolio_values[Len(portfolio_values)].value IN
                 \E sharpe \in Uniform(80, 250), drawdown \in Uniform(500, 2000),
                    win \in Uniform(4000, 7000), sortino \in Uniform(70, 220),
                    annual \in Uniform(500, 2500) :
                    returned' = <<
                       [portfolio_values |-> portfolio_values,
                        trades |-> trades,
                        metrics |-> [total_return |->
                                RoundDiv((final_value - initial_capital) * 10000,
                                         initial_capital),
                             sharpe_ratio |-> sharpe,
                             max_drawdown |-> drawdown,
                             win_rate |-> win,
                             sortino_ratio |-> sortino,
                             annual_return |-> annual]]>>
              /\ sb_pc' = "done"
    /\ UNCHANGED <<price_data, capital, positions, trades, portfolio_values,
                   sb_date, day_counter>>

\* one run per backtester, as run_standalone_backtest makes them (lines
\* 304-313: a new StandaloneBacktester for every call, run once)
NextRunStandalone ==
    /\ \/ BeginRun
       \/ SkipWeekend
       \/ TradingDay
       \/ EndRun
    /\ UNCHANGED <<cfgvars, avars, lvars, rbvars, arvars, simvars, gpvars, clvars, wvars,
                   pgvars,
                   dbvars,
                   insvars,
                   wfvars>>

NextStandalone ==
    /\ \/ BeginRun
       \/ Rerun
       \/ SkipWeekend
       \/ TradingDay
       \/ EndRun
    /\ UNCHANGED <<cfgvars, avars, lvars, rbvars, arvars, simvars, gpvars, clvars, wvars,
                   pgvars,
                   dbvars,
                   insvars,
                   wfvars>>

----------------------------------------------------------------------------
(* Position Ledger and Decision Executor (spec.md 3, 4.1, 4.2) *)

MarginValues == {50}
LedgerCashValues == {6000}
QuantityValues == {10, 20}
LedgerPriceValues == {240, 280, 300}
Actions == {"BUY", "SELL", "SHORT", "COVER", "HOLD"}

NoInstruction == [action |-> "none"]
NoTrade == [action |-> "none"]
NoValue == <<>>

\* the Portfolio at the start of a run; margin_requirement is in percent
InitialLedger(cash, margin) ==
    [cash |-> cash,
     margin_requirement |-> margin,
     positions |-> [t \in Tickers |->
        [long_shares |-> 0, short_shares |-> 0,
         long_cost_basis |-> 0, short_cost_basis |-> 0]],
     realized_gains |-> [t \in Tickers |-> [long |-> 0, short |-> 0]]]

\* 100 * margin_used: sum of short_shares * short_cost_basis * margin_requirement
margin_used100(l) ==
    SumOver([t \in Tickers |-> l.positions[t].short_shares
                * l.positions[t].short_cost_basis * l.margin_requirement],
            Tickers)

\* the weighted average cost basis, a fixed-point quotient
weighted_basis(old_shares, old_basis, quantity, price) ==
    (old_shares * old_basis + quantity * price) \div (old_shares + quantity)

\* BUY requires cash >= quantity * price
funds_ok(l, quantity, price) == l.cash >= quantity * price

margin_unchecked(l, quantity, price) == TRUE

\* SHORT requires margin_used + quantity * price * margin_requirement <= cash
margin_ok(l, quantity, price) ==
    margin_used100(l) + quantity * price * l.margin_requirement <= 100 * l.cash

clamp_none(quantity, held) == quantity

\* SELL and COVER cap the quantity at the shares held
clamp(quantity, held) == Min(quantity, held)

Trade(i, action, quantity, cash_flow) ==
    [instrument |-> i.instrument, action |-> action, quantity |-> quantity,
     price |-> i.price, cash_flow |-> cash_flow]

\* BUY: open or add to a long position
apply_buy(l, i) ==
    LET t == i.instrument
        p == l.positions[t]
    IN IF funds_ok(l, i.quantity, i.price)
         THEN [ledger |-> [l EXCEPT
                   !.cash = @ - i.quantity * i.price,
                   !.positions[t].long_cost_basis =
                       weighted_basis(p.long_shares, p.long_cost_basis,
                                      i.quantity, i.price),
                   !.positions[t].long_shares = @ + i.quantity],
               trade |-> Trade(i, "BUY", i.quantity, i.quantity * i.price),
               error |-> "none"]
         ELSE [ledger |-> l, trade |-> NoTrade, error |-> "InsufficientFunds"]

apply_sell_gain_is_proceeds(l, i) ==
    LET t == i.instrument
        p == l.positions[t]
        q == clamp(i.quantity, p.long_shares)
    IN [ledger |-> [l EXCEPT
            !.cash = @ + q * i.price,
            !.realized_gains[t].long = @ + q * i.price,
            !.positions[t].long_shares = @ - q,
            !.positions[t].long_cost_basis =
                IF p.long_shares - q = 0 THEN 0 ELSE @],
        trade |-> Trade(i, "SELL", q, 0 - q * i.price),
        error |-> "none"]

\* SELL: reduce or close a long position
apply_sell(l, i) ==
    LET t == i.instrument
        p == l.positions[t]
        q == clamp(i.quantity, p.long_shares)
    IN [ledger |-> [l EXCEPT
            !.cash = @ + q * i.price,
            !.realized_gains[t].long = @ + q * (i.price - p.long_cost_basis),
            !.positions[t].long_shares = @ - q,
            !.positions[t].long_cost_basis =
                IF p.long_shares - q = 0 THEN 0 ELSE @],
        trade |-> Trade(i, "SELL", q, 0 - q * i.price),
        error |-> "none"]

apply_short_realizing(l, i) ==
    LET t == i.instrument
        p == l.positions[t]
    IN IF margin_ok(l, i.quantity, i.price)
         THEN [ledger |-> [l EXCEPT
                   !.cash = @ + i.quantity * i.price,
                   !.realized_gains[t].short = @ + i.quantity * i.price,
                   !.positions[t].short_cost_basis =
                       weighted_basis(p.short_shares, p.short_cost_basis,
                                      i.quantity, i.price),
                   !.positions[t].short_shares = @ + i.quantity],
               trade |-> Trade(i, "SHORT", i.quantity, 0 - i.quantity * i.price),
               error |-> "none"]
         ELSE [ledger |-> l, trade |-> NoTrade, error |-> "InsufficientMargin"]

\* SHORT: open or add to a short position
apply_short(l, i) ==
    LET t == i.instrument
        p == l.positions[t]
    IN IF margin_ok(l, i.quantity, i.price)
         THEN [ledger |-> [l EXCEPT
                   !.cash = @ + i.quantity * i.price,
                   !.positions[t].short_cost_basis =
                       weighted_basis(p.short_shares, p.short_cost_basis,
                                      i.quantity, i.price),
                   !.positions[t].short_shares = @ + i.quantity],
               trade |-> Trade(i, "SHORT", i.quantity, 0 - i.quantity * i.price),
               error |-> "none"]
         ELSE [ledger |-> l, trade |-> NoTrade, error |-> "InsufficientMargin"]

\* COVER: reduce or close a short position
apply_cover(l, i) ==
    LET t == i.instrument
        p == l.positions[t]
        q == clamp(i.quantity, p.short_shares)
    IN [ledger |-> [l EXCEPT
            !.cash = @ - q * i.price,
            !.realized_gains[t].short = @ + q * (p.short_cost_basis - i.price),
            !.positions[t].short_shares = @ - q,
            !.positions[t].short_cost_basis =
                IF p.short_shares - q = 0 THEN 0 ELSE @],
        trade |-> Trade(i, "COVER", q, q * i.price),
        error |-> "none"]

\* HOLD: no state change, a Trade of quantity 0
apply_hold(l, i) ==
    [ledger |-> l, trade |-> Trade(i, "HOLD", 0, 0), error |-> "none"]

\* Position Ledger.apply: the new ledger, the Trade and the error raised
apply(l, i) ==
    IF i.action = "BUY" THEN apply_buy(l, i)
    ELSE IF i.action = "SELL" THEN apply_sell(l, i)
    ELSE IF i.action = "SHORT" THEN apply_short(l, i)
    ELSE IF i.action = "COVER" THEN apply_cover(l, i)
    ELSE apply_hold(l, i)

\* Position Ledger.mark_to_market: cash + long value - short value
mark_to_market(l, prices) ==
    l.cash + SumOver([t \in Tickers |->
        (l.positions[t].long_shares - l.positions[t].short_shares) * prices[t]],
        Tickers)

\* Decision Executor: a ledger error becomes a HOLD and a diagnostic
execute(l, i) ==
    LET r == apply(l, i) IN
    IF r.error = "none" THEN r
    ELSE [apply_hold(l, i) EXCEPT !.error = r.error]

Instructions ==
    [instrument : Tickers, action : Actions \ {"HOLD"},
     quantity : QuantityValues, price : LedgerPriceValues]
    \cup [instrument : Tickers, action : {"HOLD"}, quantity : {0},
          price : LedgerPriceValues]

InitLedger ==
    /\ \E m \in MarginValues : ledger = InitialLedger(initial_capital, m)
    /\ instruction = NoInstruction
    /\ trade = NoTrade
    /\ diagnostic = "none"
    /\ total_value = NoValue
    /\ applied = 0

\* trade and total_value hold what the latest call returned: the Trade of
\* an apply, the value of a mark_to_market
\* the Decision Executor applies one instruction
Apply ==
    /\ applied < MaxApplied
    /\ \E i \in Instructions :
         LET r == execute(ledger, i) IN
         /\ ledger' = r.ledger
         /\ trade' = r.trade
         /\ diagnostic' = r.error
         /\ instruction' = i
    /\ total_value' = NoValue
    /\ applied' = applied + 1

\* the Backtest Driver marks the ledger to market at the closing prices,
\* after the instructions of the day
MarkToMarket ==
    /\ trade # NoTrade
    /\ \E prices \in [Tickers -> LedgerPriceValues] :
          total_value' = <<mark_to_market(ledger, prices)>>
    /\ instruction' = NoInstruction
    /\ trade' = NoTrade
    /\ diagnostic' = "none"
    /\ UNCHANGED <<ledger, applied>>

NextLedger ==
    /\ \/ Apply
       \/ MarkToMarket
    /\ UNCHANGED <<cfgvars, avars, sbvars, rbvars, arvars, simvars, gpvars, clvars, wvars,
                   pgvars,
                   dbvars,
                   insvars,
                   wfvars>>

----------------------------------------------------------------------------
(* run_non_interactive_backtest of run_backtest.py (run_backtest_enhanced.py
   has the same decision code): the analysts' decisions and the Weighted
   Decision Summary *)

SummaryConfidenceValues == {30, 60}

\* run_backtest.py line 121
BuySignal(confidence) == IF confidence > 50 THEN "buy" ELSE "sell"

\* lines 117-248: the decisions of the analysts for one ticker
AnalystDecisions(conf) ==
    [i \in 1..Len(selected_analysts) |->
        [analyst |-> selected_analysts[i],
         signal |-> BuySignal(conf[selected_analysts[i]]),
         confidence |-> conf[selected_analysts[i]]]]

\* lines 390-401: the number of decisions with the signal, and the sum of
\* their confidences
signals_of(ds, sig) == Cardinality({i \in 1..Len(ds) : ds[i].signal = sig})
confidence_of(ds, sig) ==
    SumOver([i \in 1..Len(ds) |-> IF ds[i].signal = sig THEN ds[i].confidence
                                   ELSE 0], 1..Len(ds))

\* lines 403-404: sum / count if count > 0 else 0, compared as fractions
avg_greater(sum1, n1, sum2, n2) == sum1 * Max(1, n2) > sum2 * Max(1, n1)

\* line 406
final_decision(ds) ==
    LET buy_signals == signals_of(ds, "buy")
        sell_signals == signals_of(ds, "sell")
        buy_confidence == confidence_of(ds, "buy")
        sell_confidence == confidence_of(ds, "sell")
    IN IF buy_signals > sell_signals
           \/ (buy_signals = sell_signals
               /\ avg_greater(buy_confidence, buy_signals,
                              sell_confidence, sell_signals))
         THEN "BUY" ELSE "SELL"

\* line 407, in tenths of a percent
confidence_score(ds) ==
    LET bn == signals_of(ds, "buy")
        sn == signals_of(ds, "sell")
        bs == confidence_of(ds, "buy")
        ss == confidence_of(ds, "sell")
        avg_buy == IF bn > 0 THEN RoundDiv(10 * bs, bn) ELSE 0
        avg_sell == IF sn > 0 THEN RoundDiv(10 * ss, sn) ELSE 0
    IN IF final_decision(ds) = "BUY" THEN Max(avg_buy, avg_sell) ELSE avg_sell

SummaryIdle ==
    /\ rb_pc = "idle" /\ rb_idx = 0
    /\ agent_decisions = [t \in Tickers |-> <<>>]
    /\ weighted_summary = <<>>

\* lines 36-44
InitSummary ==
    /\ rb_pc = "decisions" /\ rb_idx = 1
    /\ agent_decisions = [t \in Tickers |-> <<>>]
    /\ weighted_summary = <<>>

\* lines 115-248: the decisions of the analysts for the next ticker
AgentDecisions ==
    /\ rb_pc = "decisions"
    /\ rb_idx <= Len(ticker_list)
    /\ \E conf \in [Analysts -> SummaryConfidenceValues] :
          agent_decisions' = [agent_decisions EXCEPT ![ticker_list[rb_idx]] =
                                 AnalystDecisions(conf)]
    /\ rb_idx' = rb_idx + 1
    /\ UNCHANGED <<rb_pc, weighted_summary>>

\* lines 250-388: the ticker loop is over, the summary begins
BeginSummary ==
    /\ rb_pc = "decisions"
    /\ rb_idx > Len(ticker_list)
    /\ rb_pc' = "summary"
    /\ rb_idx' = 1
    /\ UNCHANGED <<agent_decisions, weighted_summary>>

\* lines 389-410: the summary line of the next ticker
WeightedDecision ==
    /\ rb_pc = "summary"
    /\ rb_idx <= Len(ticker_list)
    /\ LET ticker == ticker_list[rb_idx]
           ds == agent_decisions[ticker]
       IN weighted_summary' = Append(weighted_summary,
             [ticker |-> ticker,
              final_decision |-> final_decision(ds),
              confidence_score |-> confidence_score(ds),
              buy_signals |-> signals_of(ds, "buy"),
              sell_signals |-> signals_of(ds, "sell")])
    /\ rb_idx' = rb_idx + 1
    /\ UNCHANGED <<rb_pc, agent_decisions>>

\* lines 411-544
EndSummary ==
    /\ rb_pc = "summary"
    /\ rb_idx > Len(ticker_list)
    /\ rb_pc' = "done"
    /\ UNCHANGED <<rb_idx, agent_decisions, weighted_summary>>

NextSummary ==
    /\ \/ AgentDecisions
       \/ BeginSummary
       \/ WeightedDecision
       \/ EndSummary
    /\ UNCHANGED <<cfgvars, avars, sbvars, lvars, arvars, simvars, gpvars, clvars, wvars,
                   pgvars,
                   dbvars,
                   insvars,
                   wfvars>>

----------------------------------------------------------------------------
(* run_non_interactive_backtest of run_backtest_architect.py: analyst inputs,
   risk assessment and portfolio management decision of each ticker *)

ArchitectAnalystLists ==
    {<<>>, <<"warren_buffett", "cathie_wood">>, selected_analysts}
RiskLevels == {"Low", "Medium", "High"}
PositionSizeLimits == {31, 100}
HoldConfidences == {60, 89}

\* lines 107-121: the two sample trades of a ticker (prices in cents)
SampleTrades(ticker) ==
    <<[ticker |-> ticker, date |-> start_date + 7, action |-> "buy",
       quantity |-> 10, price |-> 15025],
      [ticker |-> ticker, date |-> end_date - 7, action |-> "sell",
       quantity |-> 10, price |-> 16575]>>

\* lines 124-257: the inputs of the selected analysts for one ticker
AnalystInputs(analysts, conf) ==
    [i \in 1..Len(analysts) |->
        [analyst |-> analysts[i],
         signal |-> BuySignal(conf[analysts[i]]),
         confidence |-> conf[analysts[i]]]]

\* lines 267-276: the signal and the confidence of the risk assessment
RiskOf(inputs) ==
    LET buy_signals == signals_of(inputs, "buy")
        sell_signals == signals_of(inputs, "sell")
        rm == {i \in 1..Len(inputs) : inputs[i].analyst = "risk_management"}
    IN IF rm # {}
         THEN LET i == CHOOSE k \in rm : \A j \in rm : k <= j IN
              [risk_signal |-> inputs[i].signal,
               risk_confidence |-> inputs[i].confidence]
         ELSE [risk_signal |-> IF buy_signals > sell_signals
                                 THEN "buy" ELSE "sell",
               risk_confidence |->
                   50 + RoundDiv(30 * (IF buy_signals > sell_signals
                                         THEN buy_signals - sell_signals
                                         ELSE sell_signals - buy_signals),
                                 buy_signals + sell_signals)]

\* lines 292-317: the decision of the portfolio manager; the weighted scores
\* are sum / max(1, count), compared as fractions
PortfolioDecision(inputs, risk_level, limit, hold_confidence) ==
    LET bn == Max(1, signals_of(inputs, "buy"))
        sn == Max(1, signals_of(inputs, "sell"))
        bs == confidence_of(inputs, "buy")
        ss == confidence_of(inputs, "sell")
    IN IF risk_level = "High"
         THEN [action |-> "hold", confidence |-> 95, position_size |-> 0]
       ELSE IF 2 * bs * sn > 3 * ss * bn
         THEN [action |-> "buy",
               confidence |-> RoundDiv(8 * bs + 100 * bn, 10 * bn),
               position_size |-> Min(limit, IntDiv(8 * bs + 100 * bn, 10 * bn))]
       ELSE IF 2 * ss * bn > 3 * bs * sn
         THEN [action |-> "sell",
               confidence |-> RoundDiv(8 * ss + 100 * sn, 10 * sn),
               position_size |-> Min(limit, IntDiv(8 * ss + 100 * sn, 10 * sn))]
       ELSE [action |-> "hold", confidence |-> hold_confidence,
             position_size |-> 0]

ArchitectIdle ==
    /\ ar_pc = "idle" /\ ar_idx = 0 /\ ar_analysts = <<>>
    /\ ar_result = [trades |-> <<>>,
                    analyst_inputs |-> [t \in Tickers |-> <<>>],
                    risk_assessment |-> <<>>,
                    portfolio_decisions |-> <<>>]

\* lines 28-33 and 48-56
InitArchitect ==
    /\ ar_pc = "tickers" /\ ar_idx = 1
    /\ ar_analysts \in ArchitectAnalystLists
    /\ ar_result = [trades |-> <<>>,
                    analyst_inputs |-> [t \in Tickers |-> <<>>],
                    risk_assessment |-> <<>>,
                    portfolio_decisions |-> <<>>]

\* lines 101-350: one iteration of the ticker loop; line 262 divides by the
\* number of analyst inputs and raises ZeroDivisionError when there is none
ArchitectTicker ==
    /\ ar_pc = "tickers"
    /\ ar_idx <= Len(ticker_list)
    /\ LET ticker == ticker_list[ar_idx]
           analysts == {ar_analysts[i] : i \in 1..Len(ar_analysts)}
       IN \E conf \in [analysts -> SummaryConfidenceValues],
             risk_level \in RiskLevels, limit \in PositionSizeLimits,
             hold_confidence \in HoldConfidences :
            LET inputs == AnalystInputs(ar_analysts, conf)
                sampled == [ar_result EXCEPT
                               !.trades = @ \o SampleTrades(ticker),
                               !.analyst_inputs[ticker] = inputs]
            IN IF Len(inputs) = 0
                 THEN /\ ar_result' = sampled
                      /\ ar_pc' = "failed"
                      /\ UNCHANGED ar_idx
                 ELSE /\ ar_result' = [sampled EXCEPT
                            !.risk_assessment = Append(@,
                                [ticker |-> ticker,
                                 risk_level |-> risk_level,
                                 approved_for_trading |-> risk_level # "High",
                                 position_size_limit |-> limit,
                                 risk_signal |-> RiskOf(inputs).risk_signal,
                                 risk_confidence |->
                                     RiskOf(inputs).risk_confidence]),
                            !.portfolio_decisions = Append(@,
                                [ticker |-> ticker] @@
                                PortfolioDecision(inputs, risk_level, limit,
                                                  hold_confidence))]
                      /\ ar_idx' = ar_idx + 1
                      /\ UNCHANGED ar_pc
    /\ UNCHANGED ar_analysts

\* lines 352-478: the output is assembled and the result returned
ArchitectDone ==
    /\ ar_pc = "tickers"
    /\ ar_idx > Len(ticker_list)
    /\ ar_pc' = "done"
    /\ UNCHANGED <<ar_idx, ar_analysts, ar_result>>

NextArchitect ==
    /\ \/ ArchitectTicker
       \/ ArchitectDone
    /\ UNCHANGED <<cfgvars, avars, sbvars, lvars, rbvars, simvars, gpvars, clvars, wvars,
                   pgvars,
                   dbvars,
                   insvars,
                   wfvars>>

----------------------------------------------------------------------------
(* run_simulation of backend/api.py (POST /api/run) and the child process it
   runs, main.py *)

\* RunRequest.tickers: a comma separated string, possibly empty
RequestTickers == {"", "AAPL"}

\* the analysts of the workflow, in the order they print their result
SimAnalysts == <<"warren_buffett_agent", "peter_lynch_agent">>

\* main.py line 70
max_retries == 3

\* main.py line 117: (2 ** attempt) * 1.0 seconds
wait_time_constant(n) == 1

\* main.py line 117: (2 ** attempt) * 1.0 seconds
wait_time(n) == 2 ^ n

\* what run_simulation returns; a key a response does not have is empty
Response(status, message, agents, raw) ==
    [status |-> status, message |-> message, agents |-> agents, raw |-> raw]

NoResponse == Response("none", "", {}, <<>>)

\* api.py lines 850-883: the agents whose result is found in the output
agents_of(output) ==
    {output[i] : i \in {j \in 1..Len(output) : output[j] # "decisions"}}

SimulationIdle ==
    /\ sim_pc = "idle"
    /\ req_tickers = ""
    /\ child_pc = "none"
    /\ attempt = 0 /\ agent_idx = 0
    /\ stdout = <<>>
    /\ waited = <<>>
    /\ response = NoResponse
    /\ tracking = FALSE

InitSimulation ==
    /\ sim_pc = "idle"
    /\ req_tickers \in RequestTickers
    /\ child_pc = "none"
    /\ attempt = 0 /\ agent_idx = 0
    /\ stdout = <<>>
    /\ waited = <<>>
    /\ response = NoResponse
    /\ tracking = FALSE

\* api.py lines 782-783 and 1065-1073
RejectRequest ==
    /\ sim_pc = "idle"
    /\ req_tickers = ""
    /\ response' = Response("error", "Invalid input", {}, <<>>)
    /\ sim_pc' = "returned"
    /\ UNCHANGED <<req_tickers, child_pc, attempt, agent_idx, stdout, waited,
                   tracking>>

\* api.py lines 792-820: subprocess.run starts main.py; main.py lines
\* 63-64 and 130-161: progress tracking starts and the first attempt begins
StartChild ==
    /\ sim_pc = "idle"
    /\ req_tickers # ""
    /\ sim_pc' = "child"
    /\ child_pc' = "invoke"
    /\ attempt' = 0
    /\ agent_idx' = 1
    /\ tracking' = TRUE
    /\ UNCHANGED <<req_tickers, stdout, waited, response>>

\* main.py line 90, agent.invoke: the next analyst prints its result
AnalystResult ==
    /\ sim_pc = "child" /\ child_pc = "invoke"
    /\ agent_idx <= Len(SimAnalysts)
    /\ stdout' = Append(stdout, SimAnalysts[agent_idx])
    /\ agent_idx' = agent_idx + 1
    /\ UNCHANGED <<sim_pc, req_tickers, child_pc, attempt, waited, response,
                   tracking>>

\* main.py lines 90-94 and 161-174: agent.invoke returns, the decisions are
\* printed and the finally clause stops the progress tracking
InvokeReturns ==
    /\ sim_pc = "child" /\ child_pc = "invoke"
    /\ agent_idx > Len(SimAnalysts)
    /\ stdout' = Append(stdout, "decisions")
    /\ child_pc' = "exit0"
    /\ tracking' = FALSE
    /\ UNCHANGED <<sim_pc, req_tickers, attempt, agent_idx, waited, response>>

\* main.py lines 96-126, 163-164 and 172-174: agent.invoke raises; the
\* attempt is repeated after the wait, and after the last attempt
\* invoke_agent_with_retry returns None, run_hedge_fund raises and the
\* finally clause stops the progress tracking
InvokeRaisesGivesUpEarly ==
    /\ sim_pc = "child" /\ child_pc = "invoke"
    /\ IF attempt < max_retries - 2
         THEN /\ waited' = Append(waited, wait_time(attempt))
              /\ child_pc' = "sleep"
              /\ UNCHANGED tracking
         ELSE /\ child_pc' = "exit1"
              /\ tracking' = FALSE
              /\ UNCHANGED waited
    /\ UNCHANGED <<sim_pc, req_tickers, attempt, agent_idx, stdout, response>>

InvokeRaises ==
    /\ sim_pc = "child" /\ child_pc = "invoke"
    /\ IF attempt < max_retries - 1
         THEN /\ waited' = Append(waited, wait_time(attempt))
              /\ child_pc' = "sleep"
              /\ UNCHANGED tracking
         ELSE /\ child_pc' = "exit1"
              /\ tracking' = FALSE
              /\ UNCHANGED waited
    /\ UNCHANGED <<sim_pc, req_tickers, attempt, agent_idx, stdout, response>>

\* main.py lines 78 and 119-122: the next attempt after time.sleep
RetryInvoke ==
    /\ sim_pc = "child" /\ child_pc = "sleep"
    /\ attempt' = attempt + 1
    /\ agent_idx' = 1
    /\ child_pc' = "invoke"
    /\ UNCHANGED <<sim_pc, req_tickers, stdout, waited, response, tracking>>

\* api.py lines 822-1043: the child has exited within the timeout
ChildExits ==
    /\ sim_pc = "child" /\ child_pc \in {"exit0", "exit1"}
    /\ response' = IF child_pc = "exit1"
                     THEN Response("error",
                             "Simulation failed with return code 1", {}, stdout)
                     ELSE Response("success", "", agents_of(stdout), stdout)
    /\ sim_pc' = "returned"
    /\ UNCHANGED <<req_tickers, child_pc, attempt, agent_idx, stdout, waited,
                   tracking>>

\* api.py lines 811-820 and 1045-1050: the child has not exited after 300
\* seconds, wherever it is; subprocess.run kills it and raises
\* TimeoutExpired
TimeoutExpired ==
    /\ sim_pc = "child" /\ child_pc \in {"invoke", "sleep", "exit0", "exit1"}
    /\ child_pc' = "killed"
    /\ response' = Response("error", "Simulation timed out after 5 minutes",
                            {}, <<>>)
    /\ sim_pc' = "returned"
    /\ UNCHANGED <<req_tickers, attempt, agent_idx, stdout, waited, tracking>>

NextSimulation ==
    /\ \/ RejectRequest
       \/ StartChild
       \/ AnalystResult
       \/ InvokeReturns
       \/ InvokeRaises
       \/ RetryInvoke
       \/ ChildExits
       \/ TimeoutExpired
    /\ UNCHANGED <<cfgvars, avars, sbvars, lvars, rbvars, arvars, gpvars, clvars, wvars,
                   pgvars,
                   dbvars,
                   insvars,
                   wfvars>>

----------------------------------------------------------------------------
(* get_prices of tools/api.py, for one ticker *)

\* the fields of data.models.Price
PriceFields == {"open", "close", "high", "low", "volume", "time"}

\* lines 106-114: the keys of a generated price
FallbackKeys == {"date", "open", "high", "low", "close", "volume", "ticker"}

\* an element of the returned list: a Price object or a dict, its day, and
\* the names of its attributes (object) or keys (dict)
PriceObject(d) == [type |-> "Price", day |-> d, names |-> PriceFields]
PriceDict(d, keys) == [type |-> "dict", day |-> d, names |-> keys]

\* Python's hasattr: a dict has keys, not attributes
hasattr(e, name) == e.type = "Price" /\ name \in e.names

SetToSeq(S) ==
    LET RECURSIVE seq(_)
        seq(T) == IF T = {} THEN <<>>
                  ELSE LET m == CHOOSE x \in T : \A y \in T : x <= y
                       IN <<m>> \o seq(T \ {m})
    IN seq(S)

NoPrices == <<[type |-> "none", day |-> 0, names |-> {}]>>

\* line 27: the cached prices of the date range
filtered_data(cache, start, end) ==
    {d \in cache : start <= d /\ d <= end}

\* lines 71-123: one price for the start day and for every day after it up
\* to the end, a day that falls on a Saturday or Sunday being moved on by
\* two days
RECURSIVE fallback_days(_, _)
fallback_days(d, end) ==
    IF d > end THEN <<>>
    ELSE <<d>> \o fallback_days(
            IF weekday(d + 1) >= 5 THEN d + 3 ELSE d + 1, end)

generate_fallback_price_data(start, end) ==
    LET days == fallback_days(start, end)
    IN [i \in 1..Len(days) |-> PriceDict(days[i], FallbackKeys)]

PricesIdle ==
    /\ cached_prices = {}
    /\ price_list = NoPrices

\* the cache holds the prices of any days fetched before
InitPrices ==
    /\ cached_prices \in SUBSET (2..(MaxDate + 1))
    /\ price_list = NoPrices

\* lines 25-29: the cache has prices of the range
CachedPrices ==
    /\ filtered_data(cached_prices, start_date, end_date) # {}
    /\ price_list' = [i \in 1..Cardinality(
                       filtered_data(cached_prices, start_date, end_date)) |->
                     PriceObject(SetToSeq(filtered_data(cached_prices,
                                             start_date, end_date))[i])]
    /\ UNCHANGED cached_prices

\* lines 39-61: the API answers 200 with prices; they are cached and
\* returned as dicts (model_dump)
FetchedPrices ==
    /\ filtered_data(cached_prices, start_date, end_date) = {}
    /\ \E days \in SUBSET (start_date..end_date) :
          /\ days # {}
          /\ cached_prices' = cached_prices \cup days
          /\ price_list' = [i \in 1..Cardinality(days) |->
                           PriceDict(SetToSeq(days)[i], PriceFields)]

\* lines 42-48, 54-57 and 63-66: the API answers with another status, with
\* no prices, or the request raises
FallbackPricesCached ==
    /\ filtered_data(cached_prices, start_date, end_date) = {}
    /\ price_list' = generate_fallback_price_data(start_date, end_date)
    /\ cached_prices' = cached_prices \cup
          {price_list'[i].day : i \in 1..Len(price_list')}

\* lines 42-48, 54-57 and 63-66: the API answers with another status, with
\* no prices, or the request raises
FallbackPrices ==
    /\ filtered_data(cached_prices, start_date, end_date) = {}
    /\ price_list' = generate_fallback_price_data(start_date, end_date)
    /\ UNCHANGED cached_prices

NextPrices ==
    /\ \/ CachedPrices
       \/ FetchedPrices
       \/ FallbackPrices
    /\ UNCHANGED <<cfgvars, avars, sbvars, lvars, rbvars, arvars, simvars,
                   clvars, wvars,
                   pgvars,
                   dbvars,
                   insvars,
                   wfvars>>

----------------------------------------------------------------------------
(* call_llm of utils/llm.py, called once for every analyst of an instrument,
   and the Signal Aggregator of spec.md 4.3 that sizes the decision *)

SignalAnalysts == <<"warren_buffett", "cathie_wood">>

\* the allowed values of the signal field of an analyst's response model,
\* in the order of its annotation
Directions == <<"bullish", "bearish", "neutral">>

SignalConfidences == {30, 90}

\* call_llm, line 16
llm_max_retries == 3

NoFactory == [signal |-> "none", confidence |-> 0]

\* the default_factory arguments of the callers: none, or a neutral default
DefaultFactories == {NoFactory, [signal |-> "neutral", confidence |-> 0]}

\* lines 148-167: a float field becomes 0.0 and a field of another type the
\* first of its allowed values
create_default_response == [signal |-> Directions[1], confidence |-> 0]

Reporting(sigs) == {a \in DOMAIN sigs : sigs[a].signal # "none"}

Scored(sigs, direction) ==
    SumOver([a \in DOMAIN sigs |-> sigs[a].confidence],
            {a \in Reporting(sigs) : sigs[a].signal = direction})

\* spec.md 4.3, steps 1-3 with K = 1 and max_position_pct = 0.1, on a
\* ledger without positions: the decision for the signals reported
Aggregate(sigs, cash, price) ==
    LET buy_score == Scored(sigs, "bullish")
        sell_score == Scored(sigs, "bearish")
        analyst_count == Cardinality(Reporting(sigs))
        notional == Min(cash \div 10, cash)
        quantity(score) == (notional * score) \div (100 * analyst_count * price)
    IN IF analyst_count = 0
         THEN [action |-> "none", quantity |-> 0, price |-> price]
       ELSE IF buy_score > sell_score /\ quantity(buy_score) > 0
         THEN [action |-> "BUY", quantity |-> quantity(buy_score),
               price |-> price]
       ELSE IF sell_score > buy_score /\ quantity(sell_score) > 0
         THEN [action |-> "SHORT", quantity |-> quantity(sell_score),
               price |-> price]
       ELSE [action |-> "HOLD", quantity |-> 0, price |-> price]

NotSized == [action |-> "pending", quantity |-> 0, price |-> 0]

SignalsIdle ==
    /\ cl_idx = 0 /\ cl_attempt = 0
    /\ default_factory = NoFactory
    /\ analyst_signals = <<>>
    /\ unavailable = {}
    /\ sized = NotSized

InitSignals ==
    /\ cl_idx = 1 /\ cl_attempt = 0
    /\ default_factory \in DefaultFactories
    /\ analyst_signals = <<>>
    /\ unavailable = {}
    /\ sized = NotSized

\* the next analyst's call begins
NextAnalyst ==
    /\ cl_idx' = cl_idx + 1
    /\ cl_attempt' = 0

\* lines 49-130: llm.invoke returns a response that validates
LlmResponds ==
    /\ cl_idx <= Len(SignalAnalysts)
    /\ \E i \in 1..Len(Directions), c \in SignalConfidences :
          analyst_signals' = Append(analyst_signals,
                                [signal |-> Directions[i], confidence |-> c])
    /\ NextAnalyst
    /\ UNCHANGED <<default_factory, unavailable, sized>>

\* lines 65-127 and 146: no valid JSON is found in the response; the loop
\* goes on to the next attempt, and after the last one line 146 returns
\* create_default_response, whatever default_factory is
LlmUnparseable ==
    /\ cl_idx <= Len(SignalAnalysts)
    /\ IF cl_attempt < llm_max_retries - 1
         THEN /\ cl_attempt' = cl_attempt + 1
              /\ UNCHANGED <<cl_idx, analyst_signals, unavailable>>
         ELSE /\ analyst_signals' =
                    Append(analyst_signals, create_default_response)
              /\ unavailable' = unavailable \cup {cl_idx}
              /\ NextAnalyst
    /\ UNCHANGED <<default_factory, sized>>

\* lines 132-143: the call raises; after the last attempt the default of
\* default_factory, or of create_default_response, is returned
LlmRaises ==
    /\ cl_idx <= Len(SignalAnalysts)
    /\ IF cl_attempt < llm_max_retries - 1
         THEN /\ cl_attempt' = cl_attempt + 1
              /\ UNCHANGED <<cl_idx, analyst_signals, unavailable>>
         ELSE /\ analyst_signals' = Append(analyst_signals,
                    IF default_factory # NoFactory THEN default_factory
                    ELSE create_default_response)
              /\ unavailable' = unavailable \cup {cl_idx}
              /\ NextAnalyst
    /\ UNCHANGED <<default_factory, sized>>

\* the signals of all analysts are aggregated and the decision sized
SizeDecision ==
    /\ cl_idx > Len(SignalAnalysts)
    /\ sized = NotSized
    /\ \E price \in PriceValues :
          sized' = Aggregate(analyst_signals, initial_capital, price)
    /\ UNCHANGED <<cl_idx, cl_attempt, default_factory, analyst_signals,
                   unavailable>>

NextSignals ==
    /\ \/ LlmResponds
       \/ LlmUnparseable
       \/ LlmRaises
       \/ SizeDecision
    /\ UNCHANGED <<cfgvars, avars, sbvars, lvars, rbvars, arvars, simvars,
                   gpvars, wvars,
                   pgvars,
                   dbvars,
                   insvars,
                   wfvars>>

----------------------------------------------------------------------------
(* The trade execution of run_aligned_backtest (lines 221-249) statement by
   statement, for the tickers of one day: w_pc[i] is the statement the
   execution for ticker i has reached.  The execution of
   StandaloneBacktester (lines 225-261) has the same statements. *)

OrderQuantities == {1, 2}
HeldValues == {0, 2}
NoOrder == [action |-> "none", quantity |-> 0, price |-> 0, seen |-> 0]

TickerIndices == 1..Len(ticker_list)
InProgress == {i \in TickerIndices : w_pc[i] \notin {"idle", "done"}}

StatementsIdle ==
    /\ w_pc = [i \in TickerIndices |-> "idle"]
    /\ w_cash = 0
    /\ w_long = [i \in TickerIndices |-> 0]
    /\ w_order = [i \in TickerIndices |-> NoOrder]
    /\ w_trades = <<>>

\* lines 58-74, and the shares an earlier day has left
InitStatements ==
    /\ w_pc = [i \in TickerIndices |-> "idle"]
    /\ w_cash = initial_capital
    /\ w_long \in [TickerIndices -> HeldValues]
    /\ w_order = [i \in TickerIndices |-> NoOrder]
    /\ w_trades = <<>>

\* the decision of ticker i is handed to the execution
Dispatch(i) ==
    /\ \E action \in {"buy", "sell", "hold"}, quantity \in OrderQuantities,
          price \in PriceValues :
          /\ w_order' = [w_order EXCEPT ![i] =
                [action |-> action, quantity |-> quantity, price |-> price,
                 seen |-> 0]]
          /\ w_pc' = [w_pc EXCEPT ![i] =
                IF action = "buy" THEN "check"
                ELSE IF action = "sell" THEN "clamp" ELSE "done"]
    /\ UNCHANGED <<w_cash, w_long, w_trades>>

BeginExecutionParallel(i) ==
    /\ w_pc[i] = "idle"
    /\ Dispatch(i)

\* line 142, for ticker in ticker_list, and lines 221-222: the execution
\* for a ticker begins when those of the tickers before it are over
BeginExecution(i) ==
    /\ \A j \in TickerIndices :
          /\ j < i => w_pc[j] = "done"
          /\ j >= i => w_pc[j] = "idle"
    /\ Dispatch(i)

\* lines 223-224: cost <= portfolio["cash"]
CheckCash(i) ==
    /\ w_pc[i] = "check"
    /\ w_order' = [w_order EXCEPT ![i].seen = w_cash]
    /\ w_pc' = [w_pc EXCEPT ![i] =
          IF CanAfford(w_order[i].quantity * w_order[i].price, w_cash)
            THEN "debit" ELSE "done"]
    /\ UNCHANGED <<w_cash, w_long, w_trades>>

\* line 225
DebitCash(i) ==
    /\ w_pc[i] = "debit"
    /\ w_cash' = CashAfterBuy(w_cash, w_order[i].quantity * w_order[i].price)
    /\ w_pc' = [w_pc EXCEPT ![i] = "add"]
    /\ UNCHANGED <<w_long, w_order, w_trades>>

\* line 226
AddShares(i) ==
    /\ w_pc[i] = "add"
    /\ w_long' = [w_long EXCEPT ![i] = @ + w_order[i].quantity]
    /\ w_pc' = [w_pc EXCEPT ![i] = "record"]
    /\ UNCHANGED <<w_cash, w_order, w_trades>>

\* lines 237-238
ClampSell(i) ==
    /\ w_pc[i] = "clamp"
    /\ w_order' = [w_order EXCEPT
          ![i].quantity = sell_quantity(@, w_long[i]),
          ![i].seen = w_cash]
    /\ w_pc' = [w_pc EXCEPT ![i] =
          IF sell_quantity(w_order[i].quantity, w_long[i]) > 0
            THEN "credit" ELSE "done"]
    /\ UNCHANGED <<w_cash, w_long, w_trades>>

\* lines 239-240
CreditCash(i) ==
    /\ w_pc[i] = "credit"
    /\ w_cash' = CashAfterSell(w_cash, w_order[i].quantity * w_order[i].price)
    /\ w_pc' = [w_pc EXCEPT ![i] = "reduce"]
    /\ UNCHANGED <<w_long, w_order, w_trades>>

\* line 241
ReduceShares(i) ==
    /\ w_pc[i] = "reduce"
    /\ w_long' = [w_long EXCEPT ![i] = @ - w_order[i].quantity]
    /\ w_pc' = [w_pc EXCEPT ![i] = "record"]
    /\ UNCHANGED <<w_cash, w_order, w_trades>>

\* lines 227-234 and 242-249
RecordTrade(i) ==
    /\ w_pc[i] = "record"
    /\ w_trades' = Append(w_trades,
          [ticker |-> ticker_list[i], action |-> w_order[i].action,
           quantity |-> w_order[i].quantity, price |-> w_order[i].price])
    /\ w_pc' = [w_pc EXCEPT ![i] = "done"]
    /\ UNCHANGED <<w_cash, w_long, w_order>>

NextStatements ==
    /\ \E i \in TickerIndices :
          \/ BeginExecution(i)
          \/ CheckCash(i)
          \/ DebitCash(i)
          \/ AddShares(i)
          \/ ClampSell(i)
          \/ CreditCash(i)
          \/ ReduceShares(i)
          \/ RecordTrade(i)
    /\ UNCHANGED <<cfgvars, avars, sbvars, lvars, rbvars, arvars, simvars,
                   gpvars, clvars,
                   pgvars,
                   dbvars,
                   insvars,
                   wfvars>>

----------------------------------------------------------------------------
(* The pagination loop of get_insider_trades and of get_company_news
   (tools/api.py); the two loops are the same statements.  A start_date of
   0 stands for None. *)

\* bound of the model: the requests of one call
MaxRequests == 4

\* the page size, parameter limit of both functions
limit == 2

\* the pages the API can answer a request with: up to limit items dated
\* from the start date to the end date of the request
Pages(start, end) ==
    UNION {[1..n -> Max(start, 2)..end] : n \in 1..limit}

\* min(trade.filing_date for trade in insider_trades)
oldest(page) ==
    CHOOSE d \in {page[i] : i \in 1..Len(page)} :
        \A i \in 1..Len(page) : d <= page[i]

PaginationIdle ==
    /\ pg_pc = "idle" /\ current_end_date = 0
    /\ all_trades = <<>> /\ requests = 0

\* lines 221-222, 284-285
InitPagination ==
    /\ pg_pc = "request"
    /\ current_end_date = end_date
    /\ all_trades = <<>>
    /\ requests = 0

\* lines 230-232, 293-295: the status of the answer is not 200
RequestRaises ==
    /\ pg_pc = "request" /\ requests < MaxRequests
    /\ requests' = requests + 1
    /\ pg_pc' = "failed"
    /\ UNCHANGED <<current_end_date, all_trades>>

\* lines 234-239, 297-302: the answer has no items
EmptyPage ==
    /\ pg_pc = "request" /\ requests < MaxRequests
    /\ requests' = requests + 1
    /\ pg_pc' = "done"
    /\ UNCHANGED <<current_end_date, all_trades>>

\* lines 241-252, 304-315: the answer has items; the loop goes on after a
\* full page whose oldest date is after the start date
ReceivePage ==
    /\ pg_pc = "request" /\ requests < MaxRequests
    /\ current_end_date >= Max(start_date, 2)
    /\ \E page \in Pages(start_date, current_end_date) :
         /\ all_trades' = all_trades \o page
         /\ IF start_date = 0 \/ Len(page) < limit
              THEN pg_pc' = "done" /\ UNCHANGED current_end_date
              ELSE /\ current_end_date' = oldest(page)
                   /\ pg_pc' = IF oldest(page) <= start_date
                                 THEN "done" ELSE "request"
    /\ requests' = requests + 1

NextPagination ==
    /\ \/ RequestRaises
       \/ EmptyPage
       \/ ReceivePage
    /\ UNCHANGED <<cfgvars, avars, sbvars, lvars, rbvars, arvars, simvars,
                   gpvars, clvars, wvars,
                   dbvars,
                   insvars,
                   wfvars>>

----------------------------------------------------------------------------
(* DatabaseManager of database/db_manager.py: the connection pool and
   get_connection.  pool is self._pool: "None", or an asyncpg pool that is
   "open" or "closed"; acquire() of a closed asyncpg pool raises
   InterfaceError. *)

\* bound of the model: the connections acquired
MaxAcquired == 3

\* what the last call did: usable says whether the pool was open and came
\* from an initialize() that succeeded when the call began
Outcome(call, usable, res) == [call |-> call, usable |-> usable, result |-> res]

Usable == pool = "open" /\ initialized

DatabaseIdle ==
    /\ pool = "unused" /\ initialized = FALSE
    /\ in_use = 0 /\ acquired = 0 /\ released = 0
    /\ outcome = Outcome("none", FALSE, "none")

\* lines 82-84, __init__
InitDatabase ==
    /\ pool = "None" /\ initialized = FALSE
    /\ in_use = 0 /\ acquired = 0 /\ released = 0
    /\ outcome = Outcome("none", FALSE, "none")

\* lines 86-104: the pool is created and the test query succeeds
InitializeSucceeds ==
    /\ pool' = "open"
    /\ initialized' = TRUE
    /\ outcome' = Outcome("initialize", Usable, "returned")
    /\ UNCHANGED <<in_use, acquired, released>>

\* lines 92-97 and 106-108: create_pool raises, self._pool is not assigned
CreatePoolRaises ==
    /\ outcome' = Outcome("initialize", Usable, "create_pool raised")
    /\ UNCHANGED <<pool, initialized, in_use, acquired, released>>

\* lines 92-108: the pool is created and assigned, the test query raises
\* and initialize raises
TestQueryRaises ==
    /\ pool' = "open"
    /\ initialized' = FALSE
    /\ outcome' = Outcome("initialize", Usable, "test query raised")
    /\ UNCHANGED <<in_use, acquired, released>>

\* lines 110-114: the pool is closed; self._pool keeps the closed pool
Close ==
    /\ pool' = IF pool = "None" THEN "None" ELSE "closed"
    /\ outcome' = Outcome("close", Usable, "returned")
    /\ UNCHANGED <<initialized, in_use, acquired, released>>

\* lines 155-161: the RuntimeError of a pool that is None, or acquire()
GetConnection ==
    /\ acquired < MaxAcquired
    /\ IF pool = "None"
         THEN /\ outcome' = Outcome("get_connection", Usable, "RuntimeError")
              /\ UNCHANGED <<in_use, acquired>>
       ELSE IF pool = "closed"
         THEN /\ outcome' = Outcome("get_connection", Usable, "InterfaceError")
              /\ UNCHANGED <<in_use, acquired>>
       ELSE /\ outcome' = Outcome("get_connection", Usable, "connection")
            /\ in_use' = in_use + 1
            /\ acquired' = acquired + 1
    /\ UNCHANGED <<pool, initialized, released>>

\* lines 162-165: the caller's block completes; finally releases
BlockCompletes ==
    /\ in_use > 0
    /\ in_use' = in_use - 1
    /\ released' = released + 1
    /\ outcome' = Outcome("block", Usable, "completed")
    /\ UNCHANGED <<pool, initialized, acquired>>

\* lines 162-165: the caller's block raises; finally releases
BlockRaises ==
    /\ in_use > 0
    /\ in_use' = in_use - 1
    /\ released' = released + 1
    /\ outcome' = Outcome("block", Usable, "raised")
    /\ UNCHANGED <<pool, initialized, acquired>>

NextDatabase ==
    /\ \/ InitializeSucceeds
       \/ CreatePoolRaises
       \/ TestQueryRaises
       \/ Close
       \/ GetConnection
       \/ BlockCompletes
       \/ BlockRaises
    /\ UNCHANGED <<cfgvars, avars, sbvars, lvars, rbvars, arvars, simvars,
                   gpvars, clvars, wvars, pgvars,
                   insvars,
                   wfvars>>

----------------------------------------------------------------------------
(* AgentDatabaseIntegrator._get_or_create_instrument_id
   (database/agent_db_integration.py) and
   DatabaseManager.create_instrument_if_not_exists (database/db_manager.py),
   run by two asyncio tasks, each on its own connection of the pool; a task
   can be suspended at every await.  instruments[t] is the set of ids of the
   rows of the instruments table with ticker t; the column ticker is UNIQUE
   (scripts/initialize_database.py line 46). *)

Tasks == {1, 2}

NoId == 0

\* uuid_generate_v4(): an id no other row has
new_id(task) == task

InstrumentsIdle ==
    /\ task_pc = [i \in Tasks |-> "idle"]
    /\ task_ticker = [i \in Tasks |-> ""]
    /\ task_id = [i \in Tasks |-> NoId]
    /\ instruments = [t \in Tickers |-> {}]
    /\ instrument_cache = [t \in Tickers |-> NoId]

\* the table has no row and the cache no entry; every task is called with
\* a ticker
InitInstruments ==
    /\ task_pc = [i \in Tasks |-> "cache"]
    /\ task_ticker \in [Tasks -> Tickers]
    /\ task_id = [i \in Tasks |-> NoId]
    /\ instruments = [t \in Tickers |-> {}]
    /\ instrument_cache = [t \in Tickers |-> NoId]

\* agent_db_integration.py lines 53-54
CheckCache(i) ==
    /\ task_pc[i] = "cache"
    /\ IF instrument_cache[task_ticker[i]] # NoId
         THEN /\ task_id' = [task_id EXCEPT
                                ![i] = instrument_cache[task_ticker[i]]]
              /\ task_pc' = [task_pc EXCEPT ![i] = "returned"]
         ELSE /\ task_pc' = [task_pc EXCEPT ![i] = "lookup"]
              /\ UNCHANGED task_id
    /\ UNCHANGED <<task_ticker, instruments, instrument_cache>>

\* agent_db_integration.py lines 56-60 and db_manager.py lines 187-195,
\* get_instrument_by_ticker
LookupInstrument(i) ==
    /\ task_pc[i] = "lookup"
    /\ IF instruments[task_ticker[i]] # {}
         THEN /\ task_id' = [task_id EXCEPT
                  ![i] = CHOOSE id \in instruments[task_ticker[i]] : TRUE]
              /\ task_pc' = [task_pc EXCEPT ![i] = "store"]
         ELSE /\ task_pc' = [task_pc EXCEPT ![i] = "select"]
              /\ UNCHANGED task_id
    /\ UNCHANGED <<task_ticker, instruments, instrument_cache>>

\* db_manager.py lines 201-208: the SELECT of
\* create_instrument_if_not_exists
SelectInstrument(i) ==
    /\ task_pc[i] = "select"
    /\ IF instruments[task_ticker[i]] # {}
         THEN /\ task_id' = [task_id EXCEPT
                  ![i] = CHOOSE id \in instruments[task_ticker[i]] : TRUE]
              /\ task_pc' = [task_pc EXCEPT ![i] = "store"]
         ELSE /\ task_pc' = [task_pc EXCEPT ![i] = "insert"]
              /\ UNCHANGED task_id
    /\ UNCHANGED <<task_ticker, instruments, instrument_cache>>

\* db_manager.py lines 210-221: the INSERT; with a row of the ticker in the
\* table it violates the UNIQUE constraint and fetchval raises
\* UniqueViolationError
InsertInstrument(i) ==
    /\ task_pc[i] = "insert"
    /\ IF instruments[task_ticker[i]] # {}
         THEN /\ task_pc' = [task_pc EXCEPT ![i] = "error"]
              /\ UNCHANGED <<task_id, instruments>>
         ELSE /\ instruments' = [instruments EXCEPT
                                    ![task_ticker[i]] = {new_id(i)}]
              /\ task_id' = [task_id EXCEPT ![i] = new_id(i)]
              /\ task_pc' = [task_pc EXCEPT ![i] = "store"]
    /\ UNCHANGED <<task_ticker, instrument_cache>>

\* agent_db_integration.py lines 71-72
StoreInCache(i) ==
    /\ task_pc[i] = "store"
    /\ instrument_cache' = [instrument_cache EXCEPT
                               ![task_ticker[i]] = task_id[i]]
    /\ task_pc' = [task_pc EXCEPT ![i] = "returned"]
    /\ UNCHANGED <<task_ticker, task_id, instruments>>

NextInstruments ==
    /\ \E i \in Tasks :
          \/ CheckCache(i)
          \/ LookupInstrument(i)
          \/ SelectInstrument(i)
          \/ InsertInstrument(i)
          \/ StoreInCache(i)
    /\ UNCHANGED <<cfgvars, avars, sbvars, lvars, rbvars, arvars, simvars,
                   gpvars, clvars, wvars, pgvars, dbvars,
                   wfvars>>

----------------------------------------------------------------------------
(* create_workflow of main.py and the execution of the compiled graph.  An
   analyst's node is named by its key (the code appends "_agent").  The
   graph runs in supersteps: the nodes of a superstep are the targets of
   the edges of the nodes of the superstep before it. *)

\* keys of ANALYST_CONFIG
WorkflowAnalysts == {"ben_graham", "bill_ackman", "warren_buffett", "valuation"}

\* the argument selected_analysts: None, or a list of keys
NoneSelected == {"None"}

\* lines 182-212: the nodes and edges of the workflow
create_workflow(selected) ==
    LET analysts == IF selected = NoneSelected THEN WorkflowAnalysts
                    ELSE selected
    IN [nodes |-> {"start_node"} \cup analysts
                    \cup {"risk_management_agent", "portfolio_management_agent"},
        edges |-> {<<"start_node", a>> : a \in analysts}
                    \cup {<<a, "risk_management_agent">> : a \in analysts}
                    \cup {<<"risk_management_agent",
                            "portfolio_management_agent">>,
                          <<"portfolio_management_agent", "END">>},
        entry_point |-> "start_node"]

Successors(graph, from) ==
    {m \in graph.nodes \cup {"END"} : \E n \in from : <<n, m>> \in graph.edges}

WorkflowIdle ==
    /\ wf_pc = "idle" /\ wf_selected = {}
    /\ wf_active = {} /\ wf_ran = {}

\* the workflow of a selection of analysts, before workflow.compile()
InitWorkflow ==
    /\ wf_pc = "compile"
    /\ wf_selected \in SUBSET WorkflowAnalysts \cup {NoneSelected}
    /\ wf_active = {} /\ wf_ran = {}

\* workflow.compile() of a langgraph version that validates the graph: a
\* node no edge leads to makes it raise ValueError
CompileRaises ==
    /\ wf_pc = "compile"
    /\ LET graph == create_workflow(wf_selected)
       IN \E n \in graph.nodes \ {graph.entry_point} :
             \A e \in graph.edges : e[2] # n
    /\ wf_pc' = "invalid"
    /\ UNCHANGED <<wf_selected, wf_active, wf_ran>>

\* workflow.compile() and agent.invoke: the first superstep is the entry
\* point
Compile ==
    /\ wf_pc = "compile"
    /\ wf_pc' = "run"
    /\ wf_active' = {create_workflow(wf_selected).entry_point}
    /\ UNCHANGED <<wf_selected, wf_ran>>

\* a node of the superstep runs
RunNode(n) ==
    /\ wf_pc = "run"
    /\ n \in wf_active \ wf_ran
    /\ wf_ran' = wf_ran \cup {n}
    /\ UNCHANGED <<wf_pc, wf_selected, wf_active>>

\* all nodes of the superstep have run: the next superstep, END, or no
\* node left to run
NextSuperstep ==
    /\ wf_pc = "run"
    /\ wf_active \subseteq wf_ran
    /\ LET next == Successors(create_workflow(wf_selected), wf_active)
       IN /\ wf_pc' = IF next = {} THEN "halted"
                      ELSE IF "END" \in next THEN "end" ELSE "run"
          /\ wf_active' = next \ {"END"}
    /\ UNCHANGED <<wf_selected, wf_ran>>

NextWorkflow ==
    /\ \/ CompileRaises
       \/ Compile
       \/ \E n \in WorkflowAnalysts \cup {"start_node", "risk_management_agent",
                                         "portfolio_management_agent"} :
             RunNode(n)
       \/ NextSuperstep
    /\ UNCHANGED <<cfgvars, avars, sbvars, lvars, rbvars, arvars, simvars,
                   gpvars, clvars, wvars, pgvars, dbvars, insvars>>

----------------------------------------------------------------------------
(* Idle state of the parts a specification does not run *)

LedgerIdle ==
    /\ ledger = InitialLedger(0, 0)
    /\ instruction = NoInstruction
    /\ trade = NoTrade
    /\ diagnostic = "none"
    /\ total_value = NoValue
    /\ applied = 0

Init ==
    /\ start_date \in Dates
    /\ end_date \in Dates
    /\ initial_capital \in CapitalValues
    /\ InitAligned
    /\ StandaloneIdle
    /\ LedgerIdle
    /\ SummaryIdle
    /\ ArchitectIdle
    /\ SimulationIdle
    /\ PricesIdle
    /\ SignalsIdle
    /\ StatementsIdle
    /\ PaginationIdle
    /\ DatabaseIdle
    /\ InstrumentsIdle
    /\ WorkflowIdle

Next == NextAligned

Spec == Init /\ [][Next]_vars

StandaloneInit ==
    /\ start_date \in Dates
    /\ end_date \in Dates
    /\ initial_capital \in StandaloneCapitalValues
    /\ AlignedIdle
    /\ InitStandalone
    /\ LedgerIdle
    /\ SummaryIdle
    /\ ArchitectIdle
    /\ SimulationIdle
    /\ PricesIdle
    /\ SignalsIdle
    /\ StatementsIdle
    /\ PaginationIdle
    /\ DatabaseIdle
    /\ InstrumentsIdle
    /\ WorkflowIdle

StandaloneSpec == StandaloneInit /\ [][NextStandalone]_vars

RunStandaloneSpec == StandaloneInit /\ [][NextRunStandalone]_vars

StandaloneWeekInit ==
    /\ start_date = 2
    /\ end_date \in 4..MaxDate
    /\ initial_capital \in StandaloneCapitalValues
    /\ AlignedIdle
    /\ InitStandaloneWeek
    /\ LedgerIdle
    /\ SummaryIdle
    /\ ArchitectIdle
    /\ SimulationIdle
    /\ PricesIdle
    /\ SignalsIdle
    /\ StatementsIdle
    /\ PaginationIdle
    /\ DatabaseIdle
    /\ InstrumentsIdle
    /\ WorkflowIdle

StandaloneWeekSpec == StandaloneWeekInit /\ [][NextRunStandalone]_vars

LedgerInit ==
    /\ start_date = 3 /\ end_date = 3
    /\ initial_capital \in LedgerCashValues
    /\ AlignedIdle
    /\ StandaloneIdle
    /\ InitLedger
    /\ SummaryIdle
    /\ ArchitectIdle
    /\ SimulationIdle
    /\ PricesIdle
    /\ SignalsIdle
    /\ StatementsIdle
    /\ PaginationIdle
    /\ DatabaseIdle
    /\ InstrumentsIdle
    /\ WorkflowIdle

LedgerSpec == LedgerInit /\ [][NextLedger]_vars

SummaryInit ==
    /\ start_date = 3 /\ end_date = 3 /\ initial_capital = 0
    /\ AlignedIdle
    /\ StandaloneIdle
    /\ LedgerIdle
    /\ InitSummary
    /\ ArchitectIdle
    /\ SimulationIdle
    /\ PricesIdle
    /\ SignalsIdle
    /\ StatementsIdle
    /\ PaginationIdle
    /\ DatabaseIdle
    /\ InstrumentsIdle
    /\ WorkflowIdle

SummarySpec == SummaryInit /\ [][NextSummary]_vars

ArchitectInit ==
    /\ start_date = 3 /\ end_date \in {3, 4} /\ initial_capital = 0
    /\ AlignedIdle
    /\ StandaloneIdle
    /\ LedgerIdle
    /\ SummaryIdle
    /\ InitArchitect
    /\ SimulationIdle
    /\ PricesIdle
    /\ SignalsIdle
    /\ StatementsIdle
    /\ PaginationIdle
    /\ DatabaseIdle
    /\ InstrumentsIdle
    /\ WorkflowIdle

ArchitectSpec == ArchitectInit /\ [][NextArchitect]_vars

SimulationInit ==
    /\ start_date \in Dates
    /\ end_date \in Dates
    /\ initial_capital \in CapitalValues
    /\ AlignedIdle
    /\ StandaloneIdle
    /\ LedgerIdle
    /\ SummaryIdle
    /\ ArchitectIdle
    /\ InitSimulation
    /\ PricesIdle
    /\ SignalsIdle
    /\ StatementsIdle
    /\ PaginationIdle
    /\ DatabaseIdle
    /\ InstrumentsIdle
    /\ WorkflowIdle

SimulationSpec == SimulationInit /\ [][NextSimulation]_vars

PricesInit ==
    /\ start_date \in Dates
    /\ end_date \in Dates
    /\ initial_capital = 0
    /\ AlignedIdle
    /\ StandaloneIdle
    /\ LedgerIdle
    /\ SummaryIdle
    /\ ArchitectIdle
    /\ SimulationIdle
    /\ InitPrices
    /\ SignalsIdle
    /\ StatementsIdle
    /\ PaginationIdle
    /\ DatabaseIdle
    /\ InstrumentsIdle
    /\ WorkflowIdle

PricesSpec == PricesInit /\ [][NextPrices]_vars

SignalsInit ==
    /\ start_date = 3 /\ end_date = 3
    /\ initial_capital \in CapitalValues
    /\ AlignedIdle
    /\ StandaloneIdle
    /\ LedgerIdle
    /\ SummaryIdle
    /\ ArchitectIdle
    /\ SimulationIdle
    /\ PricesIdle
    /\ InitSignals
    /\ StatementsIdle
    /\ PaginationIdle
    /\ DatabaseIdle
    /\ InstrumentsIdle
    /\ WorkflowIdle

SignalsSpec == SignalsInit /\ [][NextSignals]_vars

StatementsInit ==
    /\ start_date = 3 /\ end_date = 3
    /\ initial_capital \in CapitalValues
    /\ AlignedIdle
    /\ StandaloneIdle
    /\ LedgerIdle
    /\ SummaryIdle
    /\ ArchitectIdle
    /\ SimulationIdle
    /\ PricesIdle
    /\ SignalsIdle
    /\ InitStatements
    /\ PaginationIdle
    /\ DatabaseIdle
    /\ InstrumentsIdle
    /\ WorkflowIdle

StatementsSpec == StatementsInit /\ [][NextStatements]_vars

PaginationInit ==
    /\ start_date \in {0} \cup Dates
    /\ end_date \in Dates
    /\ initial_capital = 0
    /\ AlignedIdle
    /\ StandaloneIdle
    /\ LedgerIdle
    /\ SummaryIdle
    /\ ArchitectIdle
    /\ SimulationIdle
    /\ PricesIdle
    /\ SignalsIdle
    /\ StatementsIdle
    /\ InitPagination
    /\ DatabaseIdle
    /\ InstrumentsIdle
    /\ WorkflowIdle

PaginationSpec == PaginationInit /\ [][NextPagination]_vars

DatabaseInit ==
    /\ start_date = 0 /\ end_date = 0
    /\ initial_capital = 0
    /\ AlignedIdle
    /\ StandaloneIdle
    /\ LedgerIdle
    /\ SummaryIdle
    /\ ArchitectIdle
    /\ SimulationIdle
    /\ PricesIdle
    /\ SignalsIdle
    /\ StatementsIdle
    /\ PaginationIdle
    /\ InitDatabase
    /\ InstrumentsIdle
    /\ WorkflowIdle

DatabaseSpec == DatabaseInit /\ [][NextDatabase]_vars

InstrumentsInit ==
    /\ start_date = 0 /\ end_date = 0
    /\ initial_capital = 0
    /\ AlignedIdle
    /\ StandaloneIdle
    /\ LedgerIdle
    /\ SummaryIdle
    /\ ArchitectIdle
    /\ SimulationIdle
    /\ PricesIdle
    /\ SignalsIdle
    /\ StatementsIdle
    /\ PaginationIdle
    /\ DatabaseIdle
    /\ InitInstruments
    /\ WorkflowIdle

InstrumentsSpec == InstrumentsInit /\ [][NextInstruments]_vars

WorkflowInit ==
    /\ start_date = 0 /\ end_date = 0
    /\ initial_capital = 0
    /\ AlignedIdle
    /\ StandaloneIdle
    /\ LedgerIdle
    /\ SummaryIdle
    /\ ArchitectIdle
    /\ SimulationIdle
    /\ PricesIdle
    /\ SignalsIdle
    /\ StatementsIdle
    /\ PaginationIdle
    /\ DatabaseIdle
    /\ InstrumentsIdle
    /\ InitWorkflow

WorkflowSpec == WorkflowInit /\ [][NextWorkflow]_vars

----------------------------------------------------------------------------
(* Properties of run_aligned_backtest *)

Last(q) == q[Len(q)]

\* lines 227-234 and 242-249: what a trade record says left the cash balance
cash_flow(tr) == IF tr.action = "buy" THEN tr.cost ELSE 0 - tr.proceeds

\* a step that processed one ticker, and the decision it logged
Processed == Len(portfolio_decisions_log') = Len(portfolio_decisions_log) + 1
Decision == Last(portfolio_decisions_log')

\* the trades list holds a trade for the logged decision d
Executed(d) ==
    \E i \in 1..Len(portfolio.trades) :
        /\ portfolio.trades[i].date = d.date
        /\ portfolio.trades[i].ticker = d.ticker

\* a logged buy that was not executed
RefusedBuys ==
    {i \in 1..Len(portfolio_decisions_log) :
        /\ portfolio_decisions_log[i].action = "buy"
        /\ ~Executed(portfolio_decisions_log[i])}

C2_NonNegativeAfterDay ==
    (pc \in {"day", "done"} /\ day_idx > 1) =>
        /\ portfolio.cash >= 0
        /\ \A t \in Tickers : /\ portfolio.positions[t].long >= 0
                              /\ portfolio.positions[t].short >= 0

C2_DayWithRefusedAndClampedOrders ==
    /\ pc = "done"
    /\ RefusedBuys # {}
    /\ \E i \in 1..Len(portfolio_decisions_log) :
          /\ portfolio_decisions_log[i].action = "sell"
          /\ ~Executed(portfolio_decisions_log[i])
    /\ \E t \in Tickers : portfolio.positions[t].long > 0

\* C4: every buy sets long_cost_basis to the share-weighted average of the
\* old basis and the purchase price
C4_WeightedCostBasis ==
    [][\A t \in Tickers :
          portfolio'.positions[t].long > portfolio.positions[t].long =>
             portfolio'.positions[t].long_cost_basis * portfolio'.positions[t].long
                = portfolio.positions[t].long * portfolio.positions[t].long_cost_basis
                  + (portfolio'.positions[t].long - portfolio.positions[t].long)
                    * current_prices[t]]_vars

C13_CloseBeforeOpen ==
    /\ [][(Processed /\ Decision.action = "sell"
             /\ portfolio.positions[Decision.ticker].long > 0) =>
            LET t == Decision.ticker
                held == portfolio.positions[t].long
                sq == Min(Decision.quantity, held)
            IN /\ portfolio'.positions[t].long = held - sq
               /\ portfolio'.positions[t].short = portfolio.positions[t].short
               /\ Len(portfolio'.trades) = Len(portfolio.trades) + 1
               /\ Last(portfolio'.trades).action = "sell"
               /\ Last(portfolio'.trades).ticker = t
               /\ Last(portfolio'.trades).quantity = sq]_vars
    /\ [](\A i, j \in 1..Len(portfolio_decisions_log) :
            (/\ portfolio_decisions_log[i].date = portfolio_decisions_log[j].date
             /\ portfolio_decisions_log[i].ticker
                   = portfolio_decisions_log[j].ticker) => i = j)
    /\ [](\A t \in Tickers : ~(/\ portfolio.positions[t].long > 0
                                /\ portfolio.positions[t].short > 0))

C13_LongClosedOnBearishDay ==
    /\ portfolio_decisions_log # <<>>
    /\ Last(portfolio_decisions_log).action = "sell"
    /\ portfolio.trades # <<>>
    /\ Last(portfolio.trades).action = "sell"
    /\ Last(portfolio.trades).date = Last(portfolio_decisions_log).date
    /\ Last(portfolio.trades).ticker = Last(portfolio_decisions_log).ticker
    /\ \E i \in 1..Len(portfolio.trades) :
          /\ portfolio.trades[i].action = "buy"
          /\ portfolio.trades[i].ticker = Last(portfolio.trades).ticker
          /\ portfolio.trades[i].date < Last(portfolio.trades).date

\* C22: the notional (quantity * price) of a buy decision exceeds neither a
\* tenth (max_position_pct 0.1) of the portfolio value nor the cash at hand
C22_NotionalCapped ==
    [][(Processed /\ Decision.action = "buy") =>
          /\ 10 * Decision.quantity * Decision.price
                <= PortfolioValue(portfolio, current_prices)
          /\ Decision.quantity * Decision.price <= portfolio.cash]_vars

\* C25: a step of the ticker loop logs one decision and makes at most one
\* trade; neither the decision log nor the trades hold two entries for the
\* same ticker and day
C25_OneInstruction ==
    /\ [][(pc = "ticker" /\ ticker_idx' = ticker_idx + 1) =>
            /\ Len(portfolio_decisions_log')
                  = Len(portfolio_decisions_log) + 1
            /\ Len(portfolio'.trades) <= Len(portfolio.trades) + 1]_vars
    /\ [](\A i, j \in 1..Len(portfolio_decisions_log) :
            (/\ portfolio_decisions_log[i].date = portfolio_decisions_log[j].date
             /\ portfolio_decisions_log[i].ticker
                   = portfolio_decisions_log[j].ticker) => i = j)
    /\ [](\A i, j \in 1..Len(portfolio.trades) :
            (/\ portfolio.trades[i].date = portfolio.trades[j].date
             /\ portfolio.trades[i].ticker = portfolio.trades[j].ticker)
               => i = j)

C25_TwoDaysTwoTickers ==
    /\ Len(portfolio_decisions_log) = 2 * Len(ticker_list)
    /\ Len(portfolio.trades) >= 3
    /\ portfolio_decisions_log[1].date # Last(portfolio_decisions_log).date

\* C26: every trade has a positive quantity unless it is a hold, and a
\* sell decision for a ticker of which no share is held records no trade
C26_TradeQuantities ==
    /\ [](\A k \in 1..Len(portfolio.trades) :
            /\ portfolio.trades[k].quantity >= 0
            /\ portfolio.trades[k].quantity = 0
                  => portfolio.trades[k].action = "hold")
    /\ [][(/\ Processed /\ Decision.action = "sell"
           /\ portfolio.positions[Decision.ticker].long = 0) =>
             portfolio'.trades = portfolio.trades]_vars

C26_SellWithoutShares ==
    /\ portfolio_decisions_log # <<>>
    /\ Last(portfolio_decisions_log).action = "sell"
    /\ portfolio.trades # <<>>
    /\ \A k \in 1..Len(portfolio.trades) :
          ~(/\ portfolio.trades[k].date = Last(portfolio_decisions_log).date
            /\ portfolio.trades[k].ticker
                  = Last(portfolio_decisions_log).ticker)

\* lines 175-176: 1000 * len(selected_analysts) times the target notional
\* initial_capital * 0.1 * min(0.95, score / len(selected_analysts))
TargetNotional(score, cap) == cap * Min(95 * Len(selected_analysts), score)

\* the score the decision is sized with
Score(conf, action) ==
    IF action = "buy" THEN bullish_confidence(conf)
    ELSE bearish_confidence(conf)

\* C27: a logged buy or sell has the quantity floor(target / price), which
\* is at least 1 because the target reaches the price; with a target below
\* the price the decision is a hold
C27_FloorOrHold ==
    [][Processed =>
         \A conf \in [Analysts -> ConfidenceValues] :
            LET d == Decide(conf, Decision.price, initial_capital)
                unit == 1000 * Len(selected_analysts) * Decision.price
                target == TargetNotional(Score(conf, d.action),
                                         initial_capital)
            IN (/\ d.action = Decision.action
                /\ d.quantity = Decision.quantity
                /\ d.action # "hold") =>
                  /\ target >= unit
                  /\ Decision.quantity = target \div unit]_vars

----------------------------------------------------------------------------
(* Properties of StandaloneBacktester *)

\* C7: a second run over the same price data returns the same trades and
\* the same performance metrics as the run before
C7_ReplayIdentical ==
    [][(sb_pc = "loop" /\ sb_pc' = "done" /\ returned # <<>>) =>
          /\ returned'[1].trades = returned[1].trades
          /\ returned'[1].metrics = returned[1].metrics]_vars

\* C8: the portfolio value series is strictly increasing in date and holds
\* business days only
C8_SnapshotDates ==
    /\ \A i \in 1..Len(portfolio_values) : weekday(portfolio_values[i].date) < 5
    /\ \A i, j \in 1..Len(portfolio_values) :
          i < j => portfolio_values[i].date < portfolio_values[j].date

StandaloneDay ==
    /\ sb_pc = "loop"
    /\ sb_date <= end_date
    /\ weekday(sb_date) < 5
    /\ sb_date' = sb_date + 1

NewTrades == (Len(trades) + 1)..Len(trades')

ValueAt(pv, date) ==
    LET i == CHOOSE j \in 1..Len(pv) : pv[j].date = date IN pv[i].value

\* C21: the value stored for a trading day is the cash plus, for every
\* ticker held, the shares times the price of that day (the price the day's
\* trades are made at), whether or not the ticker was traded that day
C21_ValuedAtDayPrice ==
    [][StandaloneDay =>
          ValueAt(portfolio_values', sb_date)
             = capital' + SumOver([t \in Tickers |->
                   positions'[t] * day_price(price_data, t, sb_date,
                                             day_counter)], Tickers)]_vars

\* C20: with end_date before start_date, or a negative initial capital, no
\* run is begun: the backtester stays not started and there is no portfolio
\* value, no trade and no returned metrics
C20_InvalidConfigurationRejected ==
    (end_date < start_date \/ initial_capital < 0) =>
        /\ sb_pc = "idle"
        /\ portfolio_values = <<>>
        /\ trades = <<>>
        /\ returned = <<>>

----------------------------------------------------------------------------
(* Properties of the Position Ledger *)

Applied == applied' = applied + 1

\* C3: a SHORT whose margin would exceed cash is rejected with
\* InsufficientMargin and becomes a HOLD that leaves the ledger alone;
\* any other SHORT is applied
C3_ShortMarginCheck ==
    [][(Applied /\ instruction'.action = "SHORT") =>
          LET i == instruction'
              t == i.instrument
          IN IF margin_used100(ledger)
                  + i.quantity * i.price * ledger.margin_requirement
                  > 100 * ledger.cash
               THEN /\ diagnostic' = "InsufficientMargin"
                    /\ trade'.action = "HOLD"
                    /\ trade'.quantity = 0
                    /\ ledger' = ledger
               ELSE /\ diagnostic' = "none"
                    /\ trade'.action = "SHORT"
                    /\ trade'.quantity = i.quantity
                    /\ ledger'.positions[t].short_shares
                          = ledger.positions[t].short_shares + i.quantity]_vars

C3_ShortRejected ==
    /\ instruction.action = "SHORT"
    /\ diagnostic = "InsufficientMargin"

\* C6: an entry of realized_gains changes only in a step that applies a
\* SELL or a COVER
C6_RealizedOnlyOnClose ==
    [][ledger'.realized_gains # ledger.realized_gains =>
          (Applied /\ trade'.action \in {"SELL", "COVER"})]_vars

C6_GainRealized ==
    \E t \in Tickers :
        /\ ledger.realized_gains[t].long # 0
        /\ ledger.positions[t].short_shares > 0

AfterBuyAndHold(t) ==
    /\ applied = 2
    /\ instruction.action = "HOLD" /\ instruction.instrument = t
    /\ diagnostic = "none"
    /\ ledger.positions[t] = [long_shares |-> 10, short_shares |-> 0,
                              long_cost_basis |-> 300, short_cost_basis |-> 0]
    /\ \A u \in Tickers \ {t} :
          ledger.positions[u] = InitialLedger(0, 0).positions[u]
    /\ ledger.realized_gains = InitialLedger(0, 0).realized_gains

----------------------------------------------------------------------------
(* Properties of the Weighted Decision Summary *)

\* C12: when the bullish and the bearish score of a ticker (the sums of the
\* confidences of its buy and of its sell decisions) are equal, the
\* aggregated decision is HOLD
C12_TieIsHold ==
    \A i \in 1..Len(weighted_summary) :
        LET ds == agent_decisions[weighted_summary[i].ticker] IN
        confidence_of(ds, "buy") = confidence_of(ds, "sell")
            => weighted_summary[i].final_decision = "HOLD"

----------------------------------------------------------------------------
(* Properties of the architect runner *)

\* C14: a ticker for which no analyst reported a signal is skipped: the
\* loop goes on to the next ticker, and no trade and no decision (not even a
\* hold) is recorded for it
C14_NoSignalsSkipped ==
    [][(/\ ar_pc = "tickers" /\ ar_idx <= Len(ticker_list)
        /\ ar_result' # ar_result
        /\ ar_result'.analyst_inputs[ticker_list[ar_idx]] = <<>>) =>
          /\ ar_pc' = "tickers"
          /\ ar_idx' = ar_idx + 1
          /\ ar_result'.trades = ar_result.trades
          /\ ar_result'.portfolio_decisions
                = ar_result.portfolio_decisions]_vars

\* lines 292-303: the analysts of the ticker are dominantly bullish, their
\* weighted buy score above 1.5 times the weighted sell score
DominantlyBullish(inputs) ==
    2 * confidence_of(inputs, "buy") * Max(1, signals_of(inputs, "sell"))
       > 3 * confidence_of(inputs, "sell") * Max(1, signals_of(inputs, "buy"))

\* C28: a ticker assessed as high risk whose analysts are dominantly bullish
\* is still decided as a buy, of a size within the position size limit of
\* the assessment
C28_HighRiskIsCapped ==
    \A i \in 1..Len(ar_result.portfolio_decisions) :
        LET d == ar_result.portfolio_decisions[i]
            ra == ar_result.risk_assessment[i]
        IN (/\ ra.risk_level = "High"
            /\ DominantlyBullish(ar_result.analyst_inputs[d.ticker])) =>
              /\ d.action = "buy"
              /\ d.position_size > 0
              /\ d.position_size <= ra.position_size_limit

----------------------------------------------------------------------------
(* Properties of run_simulation *)

\* C18: a run is aborted only between two units of its work, never in the
\* middle of one, and what the run had produced up to the abort is still
\* returned to the caller
C18_AbortBetweenDays ==
    [][(sim_pc = "child" /\ child_pc' = "killed") =>
          /\ child_pc # "invoke"
          /\ response'.raw = stdout
          /\ response'.agents = agents_of(stdout)]_vars

----------------------------------------------------------------------------
(* Properties of get_prices *)

\* C23: what get_prices returns is a list whose elements all have an
\* attribute time and an attribute close, whether it comes from the cache,
\* from the API or from the generated fallback data
C23_TimeAndClose ==
    price_list # NoPrices =>
        \A i \in 1..Len(price_list) :
            /\ hasattr(price_list[i], "time")
            /\ hasattr(price_list[i], "close")

\* C34: the cache changes only in a call that returns the prices of a
\* successful API response, and only by those prices; a call that returns
\* generated fallback prices leaves the cache as it is; and the prices
\* served from the cache are prices the cache holds
C34_FallbackNeverCached ==
    /\ [][cached_prices' # cached_prices =>
            /\ \A i \in 1..Len(price_list') :
                  /\ price_list'[i].type = "dict"
                  /\ price_list'[i].names = PriceFields
            /\ cached_prices' \ cached_prices
                  \subseteq {price_list'[i].day : i \in 1..Len(price_list')}]_vars
    /\ [][(\E i \in 1..Len(price_list') :
               price_list'[i].names = FallbackKeys) =>
            cached_prices' = cached_prices]_vars
    /\ [](\A i \in 1..Len(price_list) :
            price_list[i].type = "Price" => price_list[i].day \in cached_prices)

C34_FallbackReturnedCacheWithout ==
    /\ price_list # NoPrices
    /\ \A i \in 1..Len(price_list) : price_list[i].names = FallbackKeys
    /\ cached_prices # {}
    /\ \A i \in 1..Len(price_list) : price_list[i].day \notin cached_prices

----------------------------------------------------------------------------
(* Properties of the signals of call_llm *)

\* the signals without those of the analysts whose call failed
WithoutUnavailable ==
    [i \in 1..Len(analyst_signals) |->
        IF i \in unavailable THEN NoFactory ELSE analyst_signals[i]]

\* C29: the decision sized for an instrument (direction and quantity) is
\* the one that the signals give without the analysts whose call failed
C29_UnavailableIsNoOpinion ==
    sized # NotSized =>
        sized = Aggregate(WithoutUnavailable, initial_capital, sized.price)

\* C33: with a default_factory, the response of an analyst whose attempts
\* have all failed, by raising or by content that cannot be parsed, is the
\* one of default_factory
C33_DefaultFactoryReturned ==
    default_factory # NoFactory =>
        \A i \in unavailable : analyst_signals[i] = default_factory

----------------------------------------------------------------------------
(* Properties of the statements of the trade execution *)

\* C30: at most one execution is between its first and its last statement;
\* the cash an execution debits or credits is the cash it read, so no other
\* execution wrote it in between; and cash changes only by the debit or the
\* credit of the one execution in progress
C30_SingleWriter ==
    /\ [](Cardinality(InProgress) <= 1)
    /\ [](\A i \in TickerIndices :
            w_pc[i] \in {"debit", "credit"} => w_cash = w_order[i].seen)
    /\ [][w_cash' # w_cash =>
            \E i \in TickerIndices :
               /\ InProgress = {i}
               /\ w_pc[i] \in {"debit", "credit"}]_vars

C30_TwoExecutionsWroteCash ==
    /\ \A i \in TickerIndices : w_pc[i] = "done"
    /\ Len(w_trades) = Len(ticker_list)
    /\ w_trades[1].action = "buy"
    /\ w_trades[2].action = "buy"
    /\ w_order[2].seen < initial_capital

----------------------------------------------------------------------------
(* Properties of the performance metrics of run_aligned_backtest *)

\* C31: the annualized return of a finished run is the total return times
\* 365 over max(1, days between start and end date); a run whose start and
\* end date are the same day divides by 1
C31_AnnualizedReturn ==
    pc = "done" =>
        result.performance_metrics.annualized_return
            = RoundDiv((portfolio_value - initial_capital) * 10000 * 365,
                       initial_capital * Max(1, end_date - start_date))

C31_SameDayRunTraded ==
    /\ pc = "done"
    /\ end_date = start_date
    /\ Len(portfolio.trades) > 0
    /\ result.performance_metrics.annualized_return
          = 365 * result.performance_metrics.total_return

----------------------------------------------------------------------------
(* Properties of invoke_agent_with_retry *)

\* C32: the agent is invoked at most max_retries times; the first attempt
\* that does not raise ends the run with its result, without another
\* attempt; the run fails only after max_retries attempts have raised; and
\* in both cases the progress tracking is stopped
C32_RetryBounded ==
    /\ [](attempt < max_retries)
    /\ [][child_pc' = "exit0" /\ child_pc # "exit0" =>
            /\ child_pc = "invoke" /\ attempt' = attempt
            /\ stdout'[Len(stdout')] = "decisions"
            /\ ~tracking']_vars
    /\ [][child_pc = "exit0" => child_pc' \in {"exit0", "killed"}]_vars
    /\ [][child_pc' = "exit1" /\ child_pc # "exit1" =>
            /\ attempt = max_retries - 1
            /\ Len(waited) = max_retries - 1
            /\ ~tracking']_vars

C32_AllAttemptsRaised ==
    /\ child_pc = "exit1"
    /\ attempt = max_retries - 1
    /\ ~tracking
    /\ response.status = "error"

----------------------------------------------------------------------------
(* Properties of the pagination loops *)

\* C35: every further request of the loop uses an end date strictly before
\* the end date of the request before it
C35_StrictlyEarlierEndDate ==
    [][(pg_pc = "request" /\ pg_pc' = "request" /\ requests' = requests + 1)
          => current_end_date' < current_end_date]_vars

----------------------------------------------------------------------------
(* Properties of the strategy of StandaloneBacktester *)

\* C36: when a run over a range with a business day is over, every position
\* bought has been sold: all positions are zero and the last portfolio
\* value is the cash balance
C36_SoldByTheEnd ==
    (sb_pc = "done" /\ \E d \in start_date..end_date : weekday(d) < 5) =>
        /\ \A t \in Tickers : positions[t] = 0
        /\ Last(portfolio_values).value = capital

----------------------------------------------------------------------------
(* Properties of DatabaseManager *)

\* C37: a get_connection call made while the pool is not usable (before an
\* initialize() has succeeded, or after close()) raises RuntimeError
C37_UnusablePoolRaises ==
    (outcome.call = "get_connection" /\ ~outcome.usable) =>
        outcome.result = "RuntimeError"

\* C38: of two tasks called with the same ticker none ends with an error,
\* the table holds at most one row of the ticker, and the tasks that have
\* returned have returned the same instrument id
C38_OneRowSameId ==
    \A i, j \in Tasks :
        (i # j /\ task_ticker[i] = task_ticker[j]) =>
            /\ task_pc[i] # "error"
            /\ Cardinality(instruments[task_ticker[i]]) <= 1
            /\ (task_pc[i] = "returned" /\ task_pc[j] = "returned") =>
                  task_id[i] = task_id[j]

----------------------------------------------------------------------------
(* Properties of the workflow *)

\* C39: for every selection of analysts, risk_management_agent has run only
\* if every selected analyst has, portfolio_management_agent only if
\* risk_management_agent has, and an execution does not stop before END
C39_WorkflowReachesEnd ==
    /\ "risk_management_agent" \in wf_ran =>
          (create_workflow(wf_selected).nodes \cap WorkflowAnalysts)
              \subseteq wf_ran
    /\ "portfolio_management_agent" \in wf_ran =>
          "risk_management_agent" \in wf_ran
    /\ wf_pc \notin {"halted", "invalid"}

====
